---- MODULE Spec2Model ----
(***************************************************************************)
(* Transformation-logic enhancement engine, procedural statement           *)
(* decomposer and procedure orchestrator of                                *)
(* datahub.sdk.sql_lineage_enhanced.                                       *)
(*                                                                         *)
(* SQL text is modelled as a sequence of tokens.  A token is a record      *)
(* [k, q, c]: a column reference (k = "col", qualifier q, column c), an    *)
(* operator, function name or literal (k = "op"), a trailing projection    *)
(* alias (k = "as") or a construct the dialect parser rejects (k = "bad"). *)
(***************************************************************************)
EXTENDS Integers, Sequences, FiniteSets, TLC

VARIABLES
    \* ---- expand_cte_references_recursively
    cte_definitions,      \* sequence (dict order) of [name, cols]
    raw_logic,            \* the expression text handed to the call under study
    requested_depth,      \* max_depth of the outermost call
    transformation_logic, \* text argument of the current (recursive) call
    max_depth,            \* max_depth argument of the current call
    changed,              \* the flag of the pass made last
    passes,               \* number of substitution passes made so far
    xpc,                  \* "idle" | "call" | "done"
    \* ---- replace_table_aliases_with_names
    table_alias_to_urn,   \* function alias -> urn record
    once,                 \* result of the first call
    twice,                \* result of the call on that result
    rpc,                  \* "idle" | "first" | "second" | "done"
    \* ---- parse_procedure_to_nodes
    procedure_sql,        \* [hdr, segs, parse]: the text and what sqlglot makes of it
    parsed,               \* the statement list the loop walks
    nodes,                \* List[ProcedureNode]
    fallback_ran,         \* _parse_statements_with_regex_fallback was called
    dpc,                  \* "idle" | "parse" | "structural" | "fallback" |
                          \* "catchall" | "done" | "raised"
    \* ---- process_procedure_lineage
    expand_ctes,          \* the two options of the run
    replace_aliases,
    node_idx,             \* position of "for node in nodes" (1-based)
    temp_tables,          \* TempTableTracker.temp_tables: lower-cased name -> info
    created_temp_tables,  \* node.created_temp_tables, by position in nodes
    lineage_result,       \* node.lineage_result is set, by position in nodes
    jobs,                 \* the list "jobs"
    emitted,              \* what graph.emit_mcp / emit_mcps was handed, in order
    failed,               \* positions of the nodes whose processing raised
    opc,                  \* "idle" | "parse" | "loop" | "emit" | "done" | "raised"
    \* ---- extract_ctes_from_optimized_sql
    optimized_statement,  \* [ctes, joins]: what find_all yields of the statement
    epc,                  \* "idle" | "call" | "done"
    \* ---- the alias bindings of a statement
    table_refs,           \* statement.find_all(exp.Table): [alias, name] of each
    parsed_in_tables,     \* parsed_result.in_tables
    bpc,                  \* "idle" | "call" | "done"
    \* ---- the logger "sqlglot"
    suppress_warnings,    \* the option of the run
    original_sqlglot_level, \* the module global read at import
    sqlglot_level         \* sqlglot_logger.level

vars == << cte_definitions, raw_logic, requested_depth, transformation_logic,
           max_depth, changed, passes, xpc, table_alias_to_urn, once, twice, rpc,
           procedure_sql, parsed, nodes, fallback_ran, dpc,
           expand_ctes, replace_aliases, node_idx, temp_tables,
           created_temp_tables, lineage_result, jobs, emitted, failed, opc,
           optimized_statement, epc, table_refs,
           parsed_in_tables, bpc,
           suppress_warnings, original_sqlglot_level, sqlglot_level >>

expandVars == << cte_definitions, requested_depth, transformation_logic,
                 max_depth, changed, passes, xpc >>
resolveVars == << table_alias_to_urn, once, twice, rpc >>
decomposeVars == << procedure_sql, parsed, nodes, fallback_ran, dpc >>
procVars == << expand_ctes, replace_aliases, node_idx, temp_tables,
               created_temp_tables, lineage_result, jobs, emitted, failed, opc >>
extractVars == << optimized_statement, epc >>
bindVars == << table_refs, parsed_in_tables, bpc >>
loggerVars == << suppress_warnings, original_sqlglot_level, sqlglot_level >>

\* ------------------------------------------------------------------ bounds
\* largest max_depth handed to the expander by the model
MaxDepthBound == 3
\* largest number of statement-shaped pieces of a procedure text
MaxSegs == 2
\* largest number of common table expressions of a statement
MaxCtes == 2
\* largest number of table references, and of upstream tables, of a statement
MaxRefs == 2

\* ------------------------------------------------------------------ tokens
Col(q, c) == [k |-> "col", q |-> q, c |-> c]
Op(c) == [k |-> "op", q |-> "", c |-> c]
As(c) == [k |-> "as", q |-> "", c |-> c]
Bad == [k |-> "bad", q |-> "", c |-> "?"]

Max(a, b) == IF a >= b THEN a ELSE b

RECURSIVE FlattenFrom(_, _)
FlattenFrom(ss, i) ==
    IF i > Len(ss) THEN << >> ELSE ss[i] \o FlattenFrom(ss, i + 1)

Flatten(ss) ==
    FlattenFrom(ss, 1)

\* sqlglot.parse_one("SELECT " + text): raises on a construct the dialect
\* rejects; an alias is only legal as the last token of a projection.
ParseOk(text) ==
    /\ text # << >>
    /\ \A i \in 1..Len(text) :
          /\ text[i].k # "bad"
          /\ text[i].k = "as" => (i = Len(text) /\ i > 1)

\* "if isinstance(result, exp.Alias): result = result.this"
StripAlias(text) ==
    IF text # << >> /\ text[Len(text)].k = "as"
    THEN SubSeq(text, 1, Len(text) - 1)
    ELSE text

\* the generator writes keywords and function names in its own spelling
Canon(tok) ==
    IF tok.k = "op" /\ tok.c = "sum" THEN Op("SUM") ELSE tok

\* result.sql(dialect=dialect) of the first projection, alias removed
Sql(text) ==
    LET body == StripAlias(text)
    IN  [i \in 1..Len(body) |-> Canon(body[i])]

\* ------------------------------------------------------- RecursiveExpander
DefNames(defs) == { defs[i].name : i \in 1..Len(defs) }

\* cte_definitions[table_alias]
DefOf(defs, name) ==
    defs[CHOOSE i \in 1..Len(defs) : defs[i].name = name]

check_if_provided_name_is_columns_of_another_cte(col_name, defs) ==
    \E i \in 1..Len(defs) : col_name \in DOMAIN defs[i].cols

\* The loop of the elif branch: every definition exporting the name calls
\* col_ref.replace; a replace on a node already detached from the tree does
\* nothing, a calculation that does not parse is skipped.
FirstExporting(defs, name) ==
    LET hits == { i \in 1..Len(defs) :
                    /\ name \in DOMAIN defs[i].cols
                    /\ ParseOk(defs[i].cols[name]) }
    IN  IF hits = {} THEN 0
        ELSE CHOOSE i \in hits : \A j \in hits : i <= j

\* a lookup that goes by the column name when the qualifier is unknown
ReplacementByColumnName(tok, defs) ==
    IF tok.k # "col" THEN << >>
    ELSE IF tok.q # "" /\ tok.q \in DefNames(defs)
    THEN LET cte_def == DefOf(defs, tok.q)
         IN  IF tok.c \in DOMAIN cte_def.cols /\ ParseOk(cte_def.cols[tok.c])
             THEN StripAlias(cte_def.cols[tok.c])
             ELSE << >>
    ELSE IF check_if_provided_name_is_columns_of_another_cte(tok.c, defs)
    THEN LET i == FirstExporting(defs, tok.c)
         IN  IF i = 0 THEN << >> ELSE StripAlias(defs[i].cols[tok.c])
    ELSE << >>

\* The calculation a column reference is replaced by, << >> when the
\* reference is left alone.
Replacement(tok, defs) ==
    IF tok.k # "col" THEN << >>
    ELSE IF tok.q # "" /\ tok.q \in DefNames(defs)
    THEN LET cte_def == DefOf(defs, tok.q)
         IN  IF tok.c \in DOMAIN cte_def.cols /\ ParseOk(cte_def.cols[tok.c])
             THEN StripAlias(cte_def.cols[tok.c])
             ELSE << >>
    ELSE IF check_if_provided_name_is_columns_of_another_cte(tok.q, defs)
    THEN LET i == FirstExporting(defs, tok.q)
         IN  IF i = 0 THEN << >> ELSE StripAlias(defs[i].cols[tok.q])
    ELSE << >>

Replaced(tok, defs) == Replacement(tok, defs) # << >>

\* one pass over list(expr.find_all(exp.Column)): the references of the text
\* as parsed, never those a replacement brought in
PassChanged(text, defs) ==
    \E i \in 1..Len(text) : Replaced(text[i], defs)

\* (the intermediate values are bound once, so that they are computed once)
PassAll(text, defs) ==
    LET pieces == [i \in 1..Len(text) |->
                     IF Replaced(text[i], defs)
                     THEN Replacement(text[i], defs)
                     ELSE << text[i] >>]
    IN  CHOOSE result_sql \in
            { Sql(replaced) : replaced \in { Flatten(p) : p \in { pieces } } } :
            TRUE

PassFirstOnly(text, defs) ==
    LET hits == { i \in 1..Len(text) : Replaced(text[i], defs) }
        f == IF hits = {} THEN 0 ELSE CHOOSE i \in hits : \A j \in hits : i <= j
    IN  Sql(Flatten([i \in 1..Len(text) |->
                    IF i = f THEN Replacement(text[i], defs) ELSE << text[i] >>]))

PassResult(text, defs) ==
    PassAll(text, defs)

\* "if not cte_definitions or max_depth <= 0" and the failed parse
ReturnsInput(text, defs, depth) ==
    defs = << >> \/ depth <= 0 \/ ~ParseOk(text)

\* "if changed and max_depth > 1"
Recurses(chg, depth) ==
    chg /\ depth > 1

SameDepth(depth) == depth

\* the max_depth of the recursive call
NextDepth(depth) ==
    depth - 1

RECURSIVE expand_cte_references_recursively(_, _, _)
expand_cte_references_recursively(text, defs, depth) ==
    IF ReturnsInput(text, defs, depth) THEN text
    ELSE LET result_sql == PassResult(text, defs)
         IN  IF Recurses(PassChanged(text, defs), depth)
             THEN expand_cte_references_recursively(result_sql, defs,
                                                    NextDepth(depth))
             ELSE result_sql

\* ------------------------------------------------------------ AliasResolver
\* DatasetUrn.from_string(urn_str).name.split(".")[-1]
BareName(urn) == urn.name[Len(urn.name)]

ResolveTok(tok, bindings) ==
    IF tok.k = "col" /\ tok.q # "" /\ tok.q \in DOMAIN bindings
    THEN IF bindings[tok.q].ok /\ bindings[tok.q].name # << >>
         THEN Col(BareName(bindings[tok.q]), tok.c)
         ELSE tok
    ELSE tok

replace_table_aliases_with_names(text, bindings) ==
    IF DOMAIN bindings = {} \/ ~ParseOk(text) THEN text
    ELSE Sql([i \in 1..Len(text) |-> ResolveTok(text[i], bindings)])

\* ------------------------------------------------------------------ inputs
ColMaps ==
    { [c \in {"x"} |-> << Col("y", "c") >>],
      [c \in {"x"} |-> << Col("a", "x") >>],
      [c \in {"x"} |-> << Col("b", "x"), Op("+"), Col("b", "x") >>],
      [c \in {"x"} |-> << Col("t", "x"), As("z") >>],
      [c \in {"x"} |-> << Op("sum"), Col("a", "x"), Col("b", "t") >>],
      [c \in {"x"} |-> << Bad >>],
      [c \in {"x", "t"} |-> IF c = "x" THEN << Col("y", "c") >>
                                     ELSE << Col("b", "x") >>],
      [c \in {"t"} |-> << Col("a", "x") >>],
      [c \in {"t"} |-> << Bad >>],
      [c \in {} |-> << >>] }

Definitions ==
    { << >> }
      \cup { << [name |-> n, cols |-> m] >> : n \in {"a", "b"}, m \in ColMaps }
      \cup { << [name |-> "a", cols |-> m], [name |-> "b", cols |-> w] >> :
                m \in ColMaps, w \in ColMaps }
      \cup { << [name |-> "b", cols |-> m], [name |-> "a", cols |-> w] >> :
                m \in ColMaps, w \in ColMaps }

Expressions ==
    { << Col("a", "x") >>,
      << Col("b", "x"), As("z") >>,
      << Col("t", "x") >>,
      << Op("sum"), Col("a", "x"), Col("b", "t") >>,
      << Col("y", "c"), As("z") >>,
      << Col("", "x"), Op("+"), Col("a", "t") >>,
      << Col("a", "x"), Bad >> }

Urn(parts) == [ok |-> TRUE, name |-> parts]
MalformedUrn == [ok |-> FALSE, name |-> << "?" >>]

Urns ==
    { Urn(<< "db", "public", "a" >>), Urn(<< "db", "b" >>), Urn(<< "orders" >>),
      Urn(<< "db", "t" >>), MalformedUrn }

Bindings ==
    UNION { [S -> Urns] : S \in SUBSET {"a", "b", "t"} }

\* ------------------------------------------------------------------- idle
ExpandIdle ==
    /\ cte_definitions = << >>
    /\ requested_depth = 0
    /\ transformation_logic = << >>
    /\ max_depth = 0
    /\ changed = FALSE
    /\ passes = 0
    /\ xpc = "idle"

ResolveIdle ==
    /\ table_alias_to_urn = << >>
    /\ once = << >>
    /\ twice = << >>
    /\ rpc = "idle"

DecomposeIdle ==
    /\ procedure_sql = [hdr |-> "none", segs |-> << >>,
                        parse |-> [raises |-> FALSE, stmts |-> << >>]]
    /\ parsed = << >>
    /\ nodes = << >>
    /\ fallback_ran = FALSE
    /\ dpc = "idle"

ProcIdle ==
    /\ expand_ctes = TRUE
    /\ replace_aliases = TRUE
    /\ node_idx = 0
    /\ temp_tables = << >>
    /\ created_temp_tables = << >>
    /\ lineage_result = << >>
    /\ jobs = << >>
    /\ emitted = << >>
    /\ failed = {}
    /\ opc = "idle"

ExtractIdle ==
    /\ optimized_statement = [ctes |-> << >>, joins |-> << >>]
    /\ epc = "idle"

BindIdle ==
    /\ table_refs = << >>
    /\ parsed_in_tables = << >>
    /\ bpc = "idle"

\* no call that touches the logger is under way
LoggerIdle ==
    /\ suppress_warnings = FALSE
    /\ original_sqlglot_level = "WARNING"
    /\ sqlglot_level = "WARNING"

\* ------------------------------------------ expand_cte_references_recursively
InitExpand ==
    /\ cte_definitions \in Definitions
    /\ raw_logic \in Expressions
    /\ requested_depth \in 0..MaxDepthBound
    /\ transformation_logic = raw_logic
    /\ max_depth = requested_depth
    /\ changed = FALSE
    /\ passes = 0
    /\ xpc = "call"
    /\ ResolveIdle
    /\ DecomposeIdle
    /\ ProcIdle
    /\ ExtractIdle
    /\ BindIdle
    /\ LoggerIdle

\* One invocation of the function, up to its return or its recursive call.
ExpandReturnInput ==
    /\ xpc = "call"
    /\ ReturnsInput(transformation_logic, cte_definitions, max_depth)
    /\ xpc' = "done"
    /\ UNCHANGED << cte_definitions, raw_logic, requested_depth,
                    transformation_logic, max_depth, changed, passes >>
    /\ UNCHANGED resolveVars
    /\ UNCHANGED decomposeVars
    /\ UNCHANGED procVars
    /\ UNCHANGED extractVars
    /\ UNCHANGED bindVars
    /\ UNCHANGED loggerVars

ExpandPass ==
    /\ xpc = "call"
    /\ ~ReturnsInput(transformation_logic, cte_definitions, max_depth)
    /\ changed' = PassChanged(transformation_logic, cte_definitions)
    /\ transformation_logic' = PassResult(transformation_logic, cte_definitions)
    /\ passes' = passes + 1
    /\ IF Recurses(changed', max_depth)
       THEN /\ max_depth' = NextDepth(max_depth)
            /\ xpc' = "call"
       ELSE /\ max_depth' = max_depth
            /\ xpc' = "done"
    /\ UNCHANGED << cte_definitions, raw_logic, requested_depth >>
    /\ UNCHANGED resolveVars
    /\ UNCHANGED decomposeVars
    /\ UNCHANGED procVars
    /\ UNCHANGED extractVars
    /\ UNCHANGED bindVars
    /\ UNCHANGED loggerVars

NextExpand ==
    \/ ExpandReturnInput
    \/ ExpandPass

SpecExpand == InitExpand /\ [][NextExpand]_vars

\* a call that was entered runs on: the function is synchronous
FairSpecExpand == SpecExpand /\ WF_vars(NextExpand)

\* ------------------------------------------- replace_table_aliases_with_names
InitResolve ==
    /\ raw_logic \in Expressions
    /\ table_alias_to_urn \in Bindings
    /\ once = << >>
    /\ twice = << >>
    /\ rpc = "first"
    /\ ExpandIdle
    /\ DecomposeIdle
    /\ ProcIdle
    /\ ExtractIdle
    /\ BindIdle
    /\ LoggerIdle

ResolveFirst ==
    /\ rpc = "first"
    /\ once' = replace_table_aliases_with_names(raw_logic, table_alias_to_urn)
    /\ rpc' = "second"
    /\ UNCHANGED << raw_logic, table_alias_to_urn, twice >>
    /\ UNCHANGED expandVars
    /\ UNCHANGED decomposeVars
    /\ UNCHANGED procVars
    /\ UNCHANGED extractVars
    /\ UNCHANGED bindVars
    /\ UNCHANGED loggerVars

ResolveSecond ==
    /\ rpc = "second"
    /\ twice' = replace_table_aliases_with_names(once, table_alias_to_urn)
    /\ rpc' = "done"
    /\ UNCHANGED << raw_logic, table_alias_to_urn, once >>
    /\ UNCHANGED expandVars
    /\ UNCHANGED decomposeVars
    /\ UNCHANGED procVars
    /\ UNCHANGED extractVars
    /\ UNCHANGED bindVars
    /\ UNCHANGED loggerVars

NextResolve ==
    \/ ResolveFirst
    \/ ResolveSecond

SpecResolve == InitResolve /\ [][NextResolve]_vars

\* ------------------------------------------------------ ProcedureDecomposer
\* the dataclass of lines 91-103; lineage_result and created_temp_tables, the
\* two fields the orchestrator writes, are kept per node in the variables of
\* those names, the other three start as empty lists
ProcedureNode(id, type, text, seq) ==
    [node_id |-> id, node_type |-> type, sql_text |-> text,
     sequence_order |-> seq, used_temp_tables |-> << >>,
     upstream_nodes |-> << >>, downstream_nodes |-> << >>]

\* f"node_{sequence}" and f"node_{sequence}_start"
NodeId(seq) == << "node", seq >>
StartNodeId(seq) == << "node", seq, "start" >>

\* the text as a whole: header, then the pieces of the body
WholeText(sql) ==
    << sql.hdr >> \o [i \in 1..Len(sql.segs) |-> sql.segs[i].raw]

\* the node of lines 983-990 and 1076-1083
CatchAllNode(sql) ==
    ProcedureNode(NodeId(0), "unknown", WholeText(sql), 0)

\* "truncate" in statement.sql().lower()
MentionsTruncate(sql_text) ==
    sql_text \in { "TRUNCATE TABLE x" }

_classify_statement_type(statement) ==
    IF statement.cls = "Create"
    THEN IF statement.temporary THEN "create_temp_table" ELSE "unknown"
    ELSE IF statement.cls = "Insert" THEN "insert"
    ELSE IF statement.cls = "Update" THEN "update"
    ELSE IF statement.cls = "Delete" THEN "delete"
    ELSE IF statement.cls = "Merge" THEN "merge"
    ELSE IF statement.cls = "Command"
    THEN IF MentionsTruncate(statement.sql) THEN "truncate" ELSE "unknown"
    ELSE "unknown"

\* "if stmt not in statements: statements.append(stmt)"
\* an item is appended unless the list, or an item before it, equals it
RECURSIVE NewFrom(_, _, _)
NewFrom(acc, items, i) ==
    IF i > Len(items) THEN << >>
    ELSE (IF \/ \E k \in 1..Len(acc) : acc[k] = items[i]
             \/ \E k \in 1..(i - 1) : items[k] = items[i]
          THEN << >> ELSE << items[i] >>)
         \o NewFrom(acc, items, i + 1)

\* an append that does not look for the item in the list
AppendAll(acc, items) ==
    acc \o items

AppendNew(acc, items) ==
    acc \o NewFrom(acc, items, 1)

_extract_statements_from_function_body(body) ==
    IF body.cls \in {"Select", "Insert", "Update", "Delete", "Merge"}
    THEN << [cls |-> body.cls, temporary |-> FALSE, sql |-> body.sql] >>
    ELSE AppendNew(<< >>,
            SelectSeq(body.walk,
                      LAMBDA n : n.cls \in {"Select", "Insert", "Update",
                                            "Delete", "Merge", "Create"}))

\* nodes.append(ProcedureNode(node_id=f"node_{sequence}", ...)) for each
\* statement of a list, sequence += 1 after each
RECURSIVE NodesOf(_, _)
NodesOf(stmts, sequence) ==
    IF stmts = << >> THEN << >>
    ELSE << ProcedureNode(NodeId(sequence), _classify_statement_type(Head(stmts)),
                          << Head(stmts).sql >>, sequence) >>
         \o NodesOf(Tail(stmts), sequence + 1)

\* the nodes one statement of the parsed list gives, numbered from sequence
StatementNodes(statement, sequence) ==
    IF statement.cls = "None" THEN << >>
    ELSE IF statement.cls = "Create" /\ statement.kind \in {"FUNCTION", "PROCEDURE"}
    THEN LET start == IF statement.params # << >>
                      THEN << ProcedureNode(StartNodeId(sequence), "procedure_start",
                                            << "-- Parameters:" >> \o statement.params,
                                            sequence) >>
                      ELSE << >>
             inner == IF statement.has_body
                      THEN _extract_statements_from_function_body(statement.body)
                      ELSE << >>
         IN  start \o NodesOf(inner, sequence + Len(start))
    ELSE NodesOf(<< [cls |-> statement.cls, temporary |-> statement.temporary,
                     sql |-> statement.sql] >>, sequence)

\* the loop "for statement in parsed" of lines 993-1066
RECURSIVE StructuralNodes(_, _)
StructuralNodes(stmts, sequence) ==
    IF stmts = << >> THEN << >>
    ELSE CHOOSE result \in
            { here \o StructuralNodes(Tail(stmts), sequence + Len(here)) :
                 here \in { StatementNodes(Head(stmts), sequence) } } : TRUE

\* ---- the regex fallback
\* the statement-shape patterns, in the order of the list "patterns"
patterns ==
    << "truncate", "create_temp_table", "insert", "update", "delete", "merge" >>

\* re.finditer(pattern, procedure_body): (match.start(), text) of each match
MatchesOf(pattern, segs) ==
    SelectSeq([i \in 1..Len(segs) |-> [start |-> i, seg |-> segs[i]]],
              LAMBDA m : m.seg.pat = pattern)

\* all_matches.sort(key=lambda x: x[0])
\* (a stable sort: matches of equal start keep the order of the list)
SortByStart(ms) ==
    LET before(a, b) == \/ ms[a].start < ms[b].start
                        \/ ms[a].start = ms[b].start /\ a < b
        rank(a) == Cardinality({ b \in 1..Len(ms) : before(b, a) }) + 1
    IN  [k \in 1..Len(ms) |-> ms[CHOOSE a \in 1..Len(ms) : rank(a) = k]]

\* comments dropped, runs of whitespace collapsed, a closing ";" ensured
NormalizedText(raw) ==
    IF raw = "UPDATE z  SET a = 1;" THEN "UPDATE z SET a = 1;"
    ELSE IF raw = "TRUNCATE  TABLE x;" THEN "TRUNCATE TABLE x;"
    ELSE raw

_extract_statements_from_text(sql) ==
    CHOOSE statements \in
       { AppendNew(<< >>,
                   [i \in 1..Len(all_matches) |->
                       [text |-> NormalizedText(all_matches[i].seg.raw),
                        words |-> all_matches[i].seg.words]]) :
            all_matches \in
               { SortByStart(found) :
                    found \in { Flatten([p \in 1..Len(patterns) |->
                                            MatchesOf(patterns[p], sql.segs)]) } } } :
       TRUE

\* the chain of "X in sql_upper" tests of lines 904-921
FallbackNodeType(stmt) ==
    IF "TRUNCATE" \in stmt.words THEN "truncate"
    ELSE IF "CREATE" \in stmt.words /\ ("TEMP" \in stmt.words
                                        \/ "TEMPORARY" \in stmt.words)
    THEN "create_temp_table"
    ELSE IF "INSERT" \in stmt.words THEN "insert"
    ELSE IF "UPDATE" \in stmt.words THEN "update"
    ELSE IF "DELETE" \in stmt.words THEN "delete"
    ELSE IF "MERGE" \in stmt.words THEN "merge"
    ELSE "unknown"

EnumerateFromZero(start_nodes) == 0

\* enumerate(statements_with_types, start=len(nodes))
EnumerateStart(start_nodes) ==
    Len(start_nodes)

_parse_statements_with_regex_fallback(sql) ==
    LET start == IF sql.hdr = "params"
                 THEN << ProcedureNode(StartNodeId(0), "procedure_start",
                                       << "-- Parameters:", "p" >>, 0) >>
                 ELSE << >>
        first == EnumerateStart(start)
    IN  CHOOSE result \in
           { start \o [i \in 1..Len(statements) |->
                          ProcedureNode(NodeId(first + i - 1),
                                        FallbackNodeType(statements[i]),
                                        << statements[i].text >>,
                                        first + i - 1)] :
                statements \in { _extract_statements_from_text(sql) } } : TRUE

\* sqlglot.parse_one: the first statement of the text, an error when parsing
\* fails or no statement comes first
ParseOneRaises(sql) ==
    \/ sql.parse.raises
    \/ sql.parse.stmts = << >>
    \/ sql.parse.stmts[1].cls = "None"

ParseFailureRaises(sql) ==
    [dpc |-> "raised", nodes |-> << >>]

\* "except Exception as e2": the single node returned at line 991
ParseFailure(sql) ==
    [dpc |-> "done", nodes |-> << CatchAllNode(sql) >>]

\* ---- inputs of the decomposer
Seg(pat, raw, words) == [pat |-> pat, raw |-> raw, words |-> words]

\* pieces of a procedure body: the pattern that matches the piece ("none" when
\* no pattern does), its text, and the keywords its upper-cased text contains
Segments ==
    { Seg("truncate", "TRUNCATE TABLE x;", {"TRUNCATE"}),
      Seg("truncate", "TRUNCATE  TABLE x;", {"TRUNCATE"}),
      Seg("create_temp_table", "CREATE TEMP TABLE t AS SELECT a FROM y;",
          {"CREATE", "TEMP"}),
      Seg("insert", "INSERT INTO z (a) SELECT t.a FROM t;", {"INSERT"}),
      Seg("update", "UPDATE z SET a = 1;", {"UPDATE"}),
      Seg("update", "UPDATE z  SET a = 1;", {"UPDATE"}),
      Seg("update", "UPDATE z SET truncated = 1;", {"UPDATE", "TRUNCATE"}),
      Seg("delete", "DELETE FROM z WHERE a = 1;", {"DELETE"}),
      Seg("merge", "MERGE INTO z USING y ON z.a = y.a WHEN MATCHED THEN UPDATE SET a = y.a;",
          {"MERGE", "UPDATE"}),
      Seg("none", "GET DIAGNOSTICS n = ROW_COUNT;", {}) }

SeqsUpTo(S, n) == UNION { [1..m -> S] : m \in 0..n }

Stmt(cls, sql) ==
    [cls |-> cls, kind |-> "", temporary |-> FALSE, sql |-> sql,
     params |-> << >>, has_body |-> FALSE,
     body |-> [cls |-> "", sql |-> "", walk |-> << >>, source |-> << >>,
              top |-> << >>]]

Inner(cls, temporary, sql) == [cls |-> cls, temporary |-> temporary, sql |-> sql]

CreateFunction(kind, params, has_body, body) ==
    [cls |-> "Create", kind |-> kind, temporary |-> FALSE,
     sql |-> "CREATE FUNCTION f", params |-> params, has_body |-> has_body,
     body |-> body]

NoBody ==
    [cls |-> "", sql |-> "", walk |-> << >>, source |-> << >>, top |-> << >>]
\* a dollar-quoted body: a string literal, no statement inside
HeredocBody ==
    [cls |-> "Literal", sql |-> "$$...$$", walk |-> << >>, source |-> << >>,
     top |-> << >>]
SingleInsertBody ==
    [cls |-> "Insert", sql |-> "INSERT INTO z SELECT t.a FROM t", walk |-> << >>,
     source |-> << "INSERT INTO z SELECT t.a FROM t" >>,
     top |-> << "INSERT INTO z SELECT t.a FROM t" >>]
\* a block of statements: "walk" is what body.find_all yields (breadth first,
\* the default of find_all: the statements of the block, then what is nested
\* in them), "source" the statements in the order they start in the text,
\* "top" the statements of the block itself
BlockBody ==
    [cls |-> "Block", sql |-> "BEGIN ... END",
     top |-> << "CREATE TEMPORARY TABLE t AS SELECT a FROM y",
                "INSERT INTO z SELECT t.a FROM t",
                "UPDATE z SET a = 1",
                "UPDATE z SET a = 1" >>,
     source |-> << "CREATE TEMPORARY TABLE t AS SELECT a FROM y",
                   "SELECT a FROM y",
                   "INSERT INTO z SELECT t.a FROM t",
                   "SELECT t.a FROM t",
                   "UPDATE z SET a = 1",
                   "UPDATE z SET a = 1" >>,
     walk |-> << Inner("Create", TRUE, "CREATE TEMPORARY TABLE t AS SELECT a FROM y"),
                 Inner("Insert", FALSE, "INSERT INTO z SELECT t.a FROM t"),
                 Inner("Update", FALSE, "UPDATE z SET a = 1"),
                 Inner("Update", FALSE, "UPDATE z SET a = 1"),
                 Inner("Table", FALSE, "z"),
                 Inner("Select", FALSE, "SELECT a FROM y"),
                 Inner("Select", FALSE, "SELECT t.a FROM t") >>]

NoneStatement == Stmt("None", "")
TempTableStatement ==
    [Stmt("Create", "CREATE TEMPORARY TABLE t AS SELECT a FROM y")
        EXCEPT !.kind = "TABLE", !.temporary = TRUE]
TableStatement ==
    [Stmt("Create", "CREATE TABLE w AS SELECT a FROM y") EXCEPT !.kind = "TABLE"]

\* what sqlglot.parse makes of a text: an error, or a list of statements
ParseResults ==
    { [raises |-> TRUE, stmts |-> << >>] }
      \cup { [raises |-> FALSE, stmts |-> l] : l \in
             { << >>,
               << NoneStatement >>,
               << CreateFunction("FUNCTION", << "p" >>, TRUE, HeredocBody) >>,
               << CreateFunction("FUNCTION", << >>, TRUE, HeredocBody) >>,
               << CreateFunction("PROCEDURE", << >>, FALSE, NoBody) >>,
               << CreateFunction("FUNCTION", << "p", "q" >>, TRUE, BlockBody) >>,
               << CreateFunction("PROCEDURE", << >>, TRUE, SingleInsertBody) >>,
               << CreateFunction("FUNCTION", << "p" >>, TRUE, BlockBody),
                  CreateFunction("FUNCTION", << "q" >>, TRUE, SingleInsertBody) >>,
               << Stmt("Command", "TRUNCATE TABLE x"), TempTableStatement,
                  Stmt("Insert", "INSERT INTO z SELECT t.a FROM t") >>,
               << Stmt("Command", "GET DIAGNOSTICS n = ROW_COUNT") >>,
               << TableStatement, Stmt("Update", "UPDATE z SET a = 1") >>,
               << NoneStatement, Stmt("Delete", "DELETE FROM z WHERE a = 1"),
                  Stmt("Merge", "MERGE INTO z USING y ON z.a = y.a"),
                  Stmt("Select", "SELECT 1") >> } }

exprVars == << raw_logic, expandVars, resolveVars >>

\* --------------------------------------------------- parse_procedure_to_nodes
InitDecompose ==
    /\ procedure_sql \in
          [hdr : {"none", "noparams", "params"},
           segs : SeqsUpTo(Segments, MaxSegs),
           parse : ParseResults]
    /\ parsed = << >>
    /\ nodes = << >>
    /\ fallback_ran = FALSE
    /\ dpc = "parse"
    /\ raw_logic = << >>
    /\ ExpandIdle
    /\ ResolveIdle
    /\ ProcIdle
    /\ ExtractIdle
    /\ BindIdle
    /\ LoggerIdle

\* lines 972-991: sqlglot.parse, parse_one when it fails or returns nothing
DecomposeParse ==
    /\ dpc = "parse"
    /\ IF ParseOneRaises(procedure_sql)
          /\ (procedure_sql.parse.raises \/ procedure_sql.parse.stmts = << >>)
       THEN /\ dpc' = ParseFailure(procedure_sql).dpc
            /\ nodes' = ParseFailure(procedure_sql).nodes
            /\ parsed' = parsed
       ELSE /\ dpc' = "structural"
            /\ parsed' = procedure_sql.parse.stmts
            /\ nodes' = nodes
    /\ UNCHANGED << procedure_sql, fallback_ran >>
    /\ UNCHANGED exprVars
    /\ UNCHANGED procVars
    /\ UNCHANGED extractVars
    /\ UNCHANGED bindVars
    /\ UNCHANGED loggerVars

\* lines 993-1066, then the test of line 1068
DecomposeStructural ==
    /\ dpc = "structural"
    /\ nodes' = StructuralNodes(parsed, 0)
    /\ dpc' = IF nodes' = << >> THEN "fallback" ELSE "done"
    /\ UNCHANGED << procedure_sql, parsed, fallback_ran >>
    /\ UNCHANGED exprVars
    /\ UNCHANGED procVars
    /\ UNCHANGED extractVars
    /\ UNCHANGED bindVars
    /\ UNCHANGED loggerVars

\* lines 1068-1072, then the test of line 1074
DecomposeFallback ==
    /\ dpc = "fallback"
    /\ nodes' = _parse_statements_with_regex_fallback(procedure_sql)
    /\ fallback_ran' = TRUE
    /\ dpc' = IF nodes' = << >> THEN "catchall" ELSE "done"
    /\ UNCHANGED << procedure_sql, parsed >>
    /\ UNCHANGED exprVars
    /\ UNCHANGED procVars
    /\ UNCHANGED extractVars
    /\ UNCHANGED bindVars
    /\ UNCHANGED loggerVars

\* lines 1074-1083
DecomposeCatchAll ==
    /\ dpc = "catchall"
    /\ nodes' = Append(nodes, CatchAllNode(procedure_sql))
    /\ dpc' = "done"
    /\ UNCHANGED << procedure_sql, parsed, fallback_ran >>
    /\ UNCHANGED exprVars
    /\ UNCHANGED procVars
    /\ UNCHANGED extractVars
    /\ UNCHANGED bindVars
    /\ UNCHANGED loggerVars

NextDecompose ==
    \/ DecomposeParse
    \/ DecomposeStructural
    \/ DecomposeFallback
    \/ DecomposeCatchAll

SpecDecompose == InitDecompose /\ [][NextDecompose]_vars

\* ------------------------------------------- extract_ctes_from_optimized_sql
\* A projection is its text; an aliased one (an exp.Alias node) ends with the
\* alias token.
\* Expression.alias: the alias of an exp.Alias node, "" of any other node
ProjectionAlias(text) ==
    IF text[Len(text)].k = "as" THEN text[Len(text)].c ELSE ""

\* Expression.name, i.e. text("this"): the column name of a column, "*" of a
\* star, "" of a function call or any other computed projection
ProjectionName(text) ==
    IF Len(text) = 1 /\ text[1].k = "col" THEN text[1].c
    ELSE IF Len(text) = 1 /\ text[1].k = "op" /\ text[1].c = "*" THEN "*"
    ELSE ""

\* select_col.alias_or_name
alias_or_name(select_col) ==
    IF ProjectionAlias(select_col) # "" THEN ProjectionAlias(select_col)
    ELSE ProjectionName(select_col)

\* d[key] = value on a dict
DictPut(d, key, value) ==
    [k \in DOMAIN d \cup {key} |-> IF k = key THEN value ELSE d[k]]

\* the loop "for select_col in cte_query.expressions" of lines 198-208 and
\* 226-235: column_mappings after the first i projections
RECURSIVE ColumnMappingsUpTo(_, _)
ColumnMappingsUpTo(expressions, i) ==
    IF i = 0 THEN << >>
    ELSE LET column_mappings == ColumnMappingsUpTo(expressions, i - 1)
             col_name == alias_or_name(expressions[i])
         IN  IF col_name # "" /\ col_name # "*"
             THEN DictPut(column_mappings, col_name, Sql(expressions[i]))
             ELSE column_mappings

\* ctes[name] = CTEDefinition(name, ..., column_mappings): a name already in
\* the dict keeps its place
PutDefinition(ctes, name, column_mappings) ==
    IF \E i \in 1..Len(ctes) : ctes[i].name = name
    THEN [i \in 1..Len(ctes) |->
             IF ctes[i].name = name
             THEN [name |-> name, cols |-> column_mappings] ELSE ctes[i]]
    ELSE Append(ctes, [name |-> name, cols |-> column_mappings])

\* "for cte in statement.find_all(exp.CTE)", lines 186-216
RECURSIVE CteLoop(_, _)
CteLoop(found, i) ==
    IF i = 0 THEN << >>
    ELSE LET ctes == CteLoop(found, i - 1)
             cte_name == found[i].alias
             cte_query == found[i].this
         IN  IF cte_name = "" THEN ctes
             ELSE IF cte_query.cls \notin {"Select", "Union"} THEN ctes
             ELSE PutDefinition(ctes, cte_name,
                     IF cte_query.cls = "Select"
                     THEN ColumnMappingsUpTo(cte_query.expressions,
                                             Len(cte_query.expressions))
                     ELSE << >>)

\* "for join in statement.find_all(exp.Join, bfs=False)", lines 219-242
RECURSIVE JoinLoop(_, _, _)
JoinLoop(start, found, i) ==
    IF i = 0 THEN start
    ELSE LET ctes == JoinLoop(start, found, i - 1)
             join == found[i]
         IN  IF /\ join.cls = "Subquery"
                /\ join.alias # ""
                /\ join.this.cls = "Select"
             THEN PutDefinition(ctes, join.alias,
                     ColumnMappingsUpTo(join.this.expressions,
                                        Len(join.this.expressions)))
             ELSE ctes

extract_ctes_from_optimized_sql(stmt) ==
    JoinLoop(CteLoop(stmt.ctes, Len(stmt.ctes)), stmt.joins, Len(stmt.joins))

\* ---- inputs of the extractor
\* bodies of a CTE or of a parenthesised join operand
SelectBody(expressions) == [cls |-> "Select", expressions |-> expressions]
UnionBody == [cls |-> "Union", expressions |-> << >>]
ValuesBody == [cls |-> "Values", expressions |-> << >>]

Bodies ==
    { SelectBody(<< << Col("a", "x"), As("z") >> >>),
      SelectBody(<< << Col("a", "x") >>, << Op("sum"), Col("a", "x") >> >>),
      SelectBody(<< << Op("*") >>, << Op("sum"), Col("a", "x"), As("z") >> >>),
      UnionBody,
      ValuesBody }

\* WITH alias AS (body): the parser accepts no CTE without alias
CteNodes ==
    { [alias |-> a, this |-> b] : a \in {"c", "d"}, b \in Bodies }

\* JOIN (body) AS alias, JOIN (body), JOIN w AS alias
JoinNodes ==
    { [cls |-> "Subquery", alias |-> a, this |-> b] :
         a \in {"", "c", "s"}, b \in Bodies }
      \cup { [cls |-> "Table", alias |-> "s", this |-> ValuesBody] }

InitExtract ==
    /\ optimized_statement \in [ctes : SeqsUpTo(CteNodes, MaxCtes),
                                joins : SeqsUpTo(JoinNodes, 1)]
    /\ epc = "call"
    /\ raw_logic = << >>
    /\ ExpandIdle
    /\ ResolveIdle
    /\ DecomposeIdle
    /\ ProcIdle
    /\ BindIdle
    /\ LoggerIdle

\* lines 608-612: cte_definitions = extract_ctes_from_optimized_sql(...)
Extract ==
    /\ epc = "call"
    /\ cte_definitions' = extract_ctes_from_optimized_sql(optimized_statement)
    /\ epc' = "done"
    /\ UNCHANGED << raw_logic, requested_depth, transformation_logic,
                    max_depth, changed, passes, xpc, optimized_statement >>
    /\ UNCHANGED resolveVars
    /\ UNCHANGED decomposeVars
    /\ UNCHANGED procVars
    /\ UNCHANGED bindVars
    /\ UNCHANGED loggerVars

NextExtract ==
    \/ Extract

SpecExtract == InitExtract /\ [][NextExtract]_vars

\* ---------------------------------------------------- ProcedureOrchestrator
\* levels the logger "sqlglot" can have when the module is imported
SqlglotLevels == {"NOTSET", "WARNING", "ERROR"}

\* "if suppress_warnings: sqlglot_logger.setLevel(logging.ERROR)"
LevelAtEntry(suppress, level) ==
    IF suppress THEN "ERROR" ELSE level

\* "finally: if suppress_warnings: sqlglot_logger.setLevel(original_sqlglot_level)"
LevelAtExit(suppress, original, level) ==
    IF suppress THEN original ELSE level

\* max_depth=5 of the two calls of the expander
DefaultMaxDepth == 5

\* the urn the lineage parser gives a table under default_db "db" and
\* default_schema "public"
DatasetUrnOf(table) == Urn(<< "db", "public", table >>)

\* str.lower() on the names of the model
Lower(name) ==
    IF name = "T" THEN "t" ELSE IF name = "W" THEN "w" ELSE name

\* one-letter names that occur in the text of every such urn outside the table
\* name: "urn:li:dataset:(urn:li:dataPlatform:postgres,db.public.<name>,PROD)"
FramingLetters == {"t", "u", "c"}

\* "table_name.lower() in urn.lower()": a substring test on the urn text
OccursIn(table_name, urn) ==
    \/ Lower(table_name) \in FramingLetters
    \/ \E i \in 1..Len(urn.name) :
          \/ Lower(urn.name[i]) = Lower(table_name)
          \/ Lower(urn.name[i]) = "orders" /\ Lower(table_name) = "order"

\* bindings that take the last input urn the table name occurs in
BindingsByLastMatch(tables, in_tables) ==
    LET bound == { i \in 1..Len(tables) :
                     \E j \in 1..Len(in_tables) :
                        OccursIn(tables[i].name, in_tables[j]) }
        last(alias) == CHOOSE i \in bound :
                          /\ tables[i].alias = alias
                          /\ \A k \in bound : tables[k].alias = alias => k <= i
        final(i) == CHOOSE j \in 1..Len(in_tables) :
                       /\ OccursIn(tables[i].name, in_tables[j])
                       /\ \A k \in (j + 1)..Len(in_tables) :
                             ~OccursIn(tables[i].name, in_tables[k])
    IN  [alias \in { tables[i].alias : i \in bound } |->
            in_tables[final(last(alias))]]

\* the loops of lines 633-640 and 1203-1210: each table of the statement is
\* bound to the first input urn its name occurs in, a later table under the
\* same alias replacing an earlier one
AliasBindings(tables, in_tables) ==
    LET bound == { i \in 1..Len(tables) :
                     \E j \in 1..Len(in_tables) :
                        OccursIn(tables[i].name, in_tables[j]) }
        last(alias) == CHOOSE i \in bound :
                          /\ tables[i].alias = alias
                          /\ \A k \in bound : tables[k].alias = alias => k <= i
        first(i) == CHOOSE j \in 1..Len(in_tables) :
                       /\ OccursIn(tables[i].name, in_tables[j])
                       /\ \A k \in 1..(j - 1) :
                             ~OccursIn(tables[i].name, in_tables[k])
    IN  [alias \in { tables[i].alias : i \in bound } |->
            in_tables[first(last(alias))]]

\* the two steps taken the other way round
ResolveThenExpand(logic, ctes, bindings, expand, replace) ==
    LET resolved == IF replace /\ DOMAIN bindings # {}
                    THEN replace_table_aliases_with_names(logic, bindings)
                    ELSE logic
    IN  IF expand /\ ctes # << >>
        THEN expand_cte_references_recursively(resolved, ctes, DefaultMaxDepth)
        ELSE resolved

\* steps 1 and 2 of lines 716-748 (and 1225-1240)
EnhancedLogic(logic, ctes, bindings, expand, replace) ==
    LET expanded == IF expand /\ ctes # << >>
                    THEN expand_cte_references_recursively(logic, ctes,
                                                           DefaultMaxDepth)
                    ELSE logic
    IN  IF replace /\ DOMAIN bindings # {}
        THEN replace_table_aliases_with_names(expanded, bindings)
        ELSE expanded

\* ------------------------------------------------ the alias bindings alone
\* a table reference: table_ref.alias_or_name and table_ref.name
TableRef(alias, name) == [alias |-> alias, name |-> name]

\* table references of a statement: FROM y, FROM w AS s, FROM y AS s,
\* FROM W, FROM z, FROM "order" AS o, FROM T
BindTableRefs ==
    { TableRef("y", "y"), TableRef("s", "w"), TableRef("s", "y"),
      TableRef("W", "W"), TableRef("z", "z"), TableRef("o", "order"),
      TableRef("T", "T") }

\* upstream tables as base lineage returns them
BindInTables ==
    { DatasetUrnOf("y"), DatasetUrnOf("w"), DatasetUrnOf("orders") }

InitBind ==
    /\ table_refs \in SeqsUpTo(BindTableRefs, MaxRefs)
    /\ parsed_in_tables \in SeqsUpTo(BindInTables, MaxRefs)
    /\ bpc = "call"
    /\ raw_logic = << >>
    /\ ExpandIdle
    /\ ResolveIdle
    /\ DecomposeIdle
    /\ ProcIdle
    /\ ExtractIdle
    /\ LoggerIdle

\* lines 629-642: table_alias_to_urn of a statement, replace_aliases on
Bind ==
    /\ bpc = "call"
    /\ table_alias_to_urn' = AliasBindings(table_refs, parsed_in_tables)
    /\ bpc' = "done"
    /\ UNCHANGED << raw_logic, once, twice, rpc, table_refs,
                    parsed_in_tables >>
    /\ UNCHANGED expandVars
    /\ UNCHANGED decomposeVars
    /\ UNCHANGED procVars
    /\ UNCHANGED extractVars
    /\ UNCHANGED loggerVars

NextBind ==
    \/ Bind

SpecBind == InitBind /\ [][NextBind]_vars

\* ------------------------------------------- the two steps on one expression
\* alias bindings of the step-by-step runs
EnhanceBindings ==
    UNION { [S -> { Urn(<< "db", "public", "a" >>), Urn(<< "orders" >>) }] :
               S \in SUBSET {"a", "t"} }

InitEnhance ==
    /\ raw_logic \in Expressions
    /\ cte_definitions \in Definitions
    /\ table_alias_to_urn \in EnhanceBindings
    /\ expand_ctes \in BOOLEAN
    /\ replace_aliases \in BOOLEAN
    /\ transformation_logic = raw_logic
    /\ requested_depth = DefaultMaxDepth
    /\ max_depth = DefaultMaxDepth
    /\ changed = FALSE
    /\ passes = 0
    /\ xpc = "call"
    /\ once = << >>
    /\ twice = << >>
    /\ rpc = "idle"
    /\ node_idx = 0
    /\ temp_tables = << >>
    /\ created_temp_tables = << >>
    /\ lineage_result = << >>
    /\ jobs = << >>
    /\ emitted = << >>
    /\ failed = {}
    /\ opc = "idle"
    /\ DecomposeIdle
    /\ ExtractIdle
    /\ BindIdle
    /\ LoggerIdle

\* Step 1, lines 716-732
EnhanceExpand ==
    /\ xpc = "call"
    /\ rpc = "idle"
    /\ transformation_logic' =
          IF expand_ctes /\ cte_definitions # << >>
          THEN expand_cte_references_recursively(raw_logic, cte_definitions,
                                                 DefaultMaxDepth)
          ELSE raw_logic
    /\ changed' = (transformation_logic' # raw_logic)
    /\ xpc' = "done"
    /\ rpc' = "first"
    /\ UNCHANGED << raw_logic, cte_definitions, requested_depth, max_depth,
                    passes, table_alias_to_urn, once, twice >>
    /\ UNCHANGED decomposeVars
    /\ UNCHANGED procVars
    /\ UNCHANGED extractVars
    /\ UNCHANGED bindVars
    /\ UNCHANGED loggerVars

\* Step 2, lines 734-748
EnhanceResolve ==
    /\ xpc = "done"
    /\ rpc = "first"
    /\ once' =
          IF replace_aliases /\ DOMAIN table_alias_to_urn # {}
          THEN replace_table_aliases_with_names(transformation_logic,
                                                table_alias_to_urn)
          ELSE transformation_logic
    /\ rpc' = "done"
    /\ UNCHANGED << raw_logic, table_alias_to_urn, twice >>
    /\ UNCHANGED expandVars
    /\ UNCHANGED decomposeVars
    /\ UNCHANGED procVars
    /\ UNCHANGED extractVars
    /\ UNCHANGED bindVars
    /\ UNCHANGED loggerVars

NextEnhance ==
    \/ EnhanceExpand
    \/ EnhanceResolve

SpecEnhance == InitEnhance /\ [][NextEnhance]_vars

\* ---- what sqlglot and create_lineage_sql_parsed_result make of a statement
ColumnLineage(column, logic, is_direct_copy, upstreams) ==
    [column |-> column, has_logic |-> TRUE, logic |-> logic,
     is_direct_copy |-> is_direct_copy, upstreams |-> upstreams]

Facts(cls, table_name, has_select, tables, in_tables, out_tables, lineage, ctes) ==
    [cls |-> cls, table_name |-> table_name, has_select |-> has_select,
     tables |-> tables, in_tables |-> in_tables, out_tables |-> out_tables,
     table_error |-> FALSE, column_error |-> FALSE,
     column_lineage |-> lineage, ctes |-> ctes]

\* a text the parser cannot make a statement of
NoFacts ==
    [Facts("Error", "", FALSE, << >>, << >>, << >>, << >>, << >>)
        EXCEPT !.table_error = TRUE]

StatementFacts(sql_text) ==
    IF sql_text \in { << "CREATE TEMPORARY TABLE t AS SELECT a FROM y" >>,
                      << "CREATE TEMP TABLE t AS SELECT a FROM y;" >> }
    THEN Facts("Create", "t", TRUE,
               << TableRef("t", "t"), TableRef("y", "y") >>,
               << DatasetUrnOf("y") >>, << >>,
               << ColumnLineage("a", << Col("y", "a") >>, TRUE,
                                { DatasetUrnOf("y") }) >>, << >>)
    ELSE IF sql_text = << "CREATE TEMPORARY TABLE u AS SELECT t.a FROM t" >>
    THEN Facts("Create", "u", TRUE,
               << TableRef("u", "u"), TableRef("t", "t") >>,
               << DatasetUrnOf("t") >>, << >>,
               << ColumnLineage("a", << Col("t", "a") >>, TRUE,
                                { DatasetUrnOf("t") }) >>, << >>)
    ELSE IF sql_text = << "CREATE TEMPORARY TABLE T (a INT)" >>
    THEN Facts("Create", "T", FALSE, << TableRef("T", "T") >>,
               << >>, << >>, << >>, << >>)
    ELSE IF sql_text \in { << "INSERT INTO z SELECT t.a FROM t" >>,
                           << "INSERT INTO z (a) SELECT t.a FROM t;" >> }
    THEN Facts("Insert", "", TRUE,
               << TableRef("z", "z"), TableRef("t", "t") >>,
               << DatasetUrnOf("t") >>, << DatasetUrnOf("z") >>,
               << ColumnLineage("a", << Col("t", "a") >>, TRUE,
                                { DatasetUrnOf("t") }) >>, << >>)
    ELSE IF sql_text =
            << "INSERT INTO z WITH c AS (SELECT a FROM t) SELECT sum(c.a) FROM c" >>
    THEN Facts("Insert", "", TRUE,
               << TableRef("z", "z"), TableRef("t", "t"), TableRef("c", "c") >>,
               << DatasetUrnOf("t") >>, << DatasetUrnOf("z") >>,
               << ColumnLineage("a", << Op("sum"), Col("c", "a") >>, FALSE,
                                { DatasetUrnOf("t") }) >>,
               << [name |-> "c", cols |-> [k \in {"a"} |-> << Col("t", "a") >>]] >>)
    ELSE IF sql_text =
            << "INSERT INTO z WITH c AS (SELECT s.a FROM y JOIN w AS s ON y.a = s.a) SELECT sum(c.a) FROM c" >>
    THEN Facts("Insert", "", TRUE,
               << TableRef("z", "z"), TableRef("y", "y"), TableRef("s", "w"),
                  TableRef("c", "c") >>,
               << DatasetUrnOf("y"), DatasetUrnOf("w") >>, << DatasetUrnOf("z") >>,
               << ColumnLineage("a", << Op("sum"), Col("c", "a") >>, FALSE,
                                { DatasetUrnOf("w") }) >>,
               << [name |-> "c", cols |-> [k \in {"a"} |-> << Col("s", "a") >>]] >>)
    ELSE IF sql_text = << "UPDATE z SET a = 1" >>
    THEN Facts("Update", "", FALSE, << TableRef("z", "z") >>,
               << >>, << DatasetUrnOf("z") >>, << >>, << >>)
    ELSE IF sql_text = << "DELETE FROM z WHERE a = 1" >>
    THEN Facts("Delete", "", FALSE, << TableRef("z", "z") >>,
               << >>, << DatasetUrnOf("z") >>, << >>, << >>)
    ELSE IF sql_text = << "MERGE INTO z USING y ON z.a = y.a" >>
    THEN Facts("Merge", "", FALSE,
               << TableRef("z", "z"), TableRef("y", "y") >>,
               << DatasetUrnOf("y") >>, << DatasetUrnOf("z") >>,
               << ColumnLineage("a", << Col("y", "a") >>, TRUE,
                                { DatasetUrnOf("y") }),
                  \* "logic: Optional[...] = None": a column without logic
                  [ColumnLineage("b", << >>, FALSE, { DatasetUrnOf("y") })
                      EXCEPT !.has_logic = FALSE] >>, << >>)
    ELSE IF sql_text = << "INSERT OVERWRITE DIRECTORY 'd' SELECT a FROM y" >>
    THEN \* the target is no table: in_tables without out_tables
         Facts("Insert", "", TRUE, << TableRef("y", "y") >>,
               << DatasetUrnOf("y") >>, << >>,
               << ColumnLineage("a", << Col("y", "a") >>, TRUE,
                                { DatasetUrnOf("y") }) >>, << >>)
    ELSE IF sql_text = << "INSERT INTO z SELECT * FROM y JOIN w ON y.a = w.a" >>
    THEN \* the star cannot be resolved: column_error, no column lineage
         [Facts("Insert", "", TRUE,
                << TableRef("z", "z"), TableRef("y", "y"), TableRef("w", "w") >>,
                << DatasetUrnOf("y"), DatasetUrnOf("w") >>, << DatasetUrnOf("z") >>,
                << >>, << >>)
             EXCEPT !.column_error = TRUE]
    ELSE IF sql_text = << "INSERT INTO z SELECT y.a, * FROM y" >>
    THEN \* column_error with the columns that were resolved
         [Facts("Insert", "", TRUE,
                << TableRef("z", "z"), TableRef("y", "y") >>,
                << DatasetUrnOf("y") >>, << DatasetUrnOf("z") >>,
                << ColumnLineage("a", << Col("y", "a") >>, TRUE,
                                 { DatasetUrnOf("y") }) >>, << >>)
             EXCEPT !.column_error = TRUE]
    ELSE NoFacts

\* ---- TempTableTracker
\* "dataset_urn: Optional[str] = None"
NoUrn == [ok |-> FALSE, name |-> << >>]

TempTableInfo(table_name, columns, created_in_node_id, dataset_urn) ==
    [table_name |-> table_name, columns |-> columns,
     created_in_node_id |-> created_in_node_id, dataset_urn |-> dataset_urn,
     column_lineage |-> FALSE]

\* a registration that skips a table without columns
RegisterOnlyWithColumns(tables, table_name, columns, created_in_node_id, dataset_urn) ==
    IF DOMAIN columns = {}
    THEN tables
    ELSE [n \in DOMAIN tables \cup { Lower(table_name) } |->
            IF n = Lower(table_name)
            THEN TempTableInfo(table_name, columns, created_in_node_id, dataset_urn)
            ELSE tables[n]]

\* a registration that keeps what an earlier one of the name left
RegisterMerging(tables, table_name, columns, created_in_node_id, dataset_urn) ==
    [n \in DOMAIN tables \cup { Lower(table_name) } |->
        IF n \in DOMAIN tables
        THEN tables[n]
        ELSE TempTableInfo(table_name, columns, created_in_node_id, dataset_urn)]

\* self.temp_tables[table_name.lower()] = TempTableInfo(...)
register_temp_table(tables, table_name, columns, created_in_node_id, dataset_urn) ==
    [n \in DOMAIN tables \cup { Lower(table_name) } |->
        IF n = Lower(table_name)
        THEN TempTableInfo(table_name, columns, created_in_node_id, dataset_urn)
        ELSE tables[n]]

is_temp_table(tables, table_name) ==
    Lower(table_name) \in DOMAIN tables

\* temp_table.column_lineage = lineage_result, when the table is registered
set_column_lineage(tables, table_name) ==
    [n \in DOMAIN tables |->
        IF n = Lower(table_name)
        THEN [tables[n] EXCEPT !.column_lineage = TRUE]
        ELSE tables[n]]

\* ---- what goes to the sink
Mcp(kind, node_id, body) == [kind |-> kind, node |-> node_id, body |-> body]

\* temp_dataset.as_mcps(): the entity, and its schema when it has fields
DatasetMcps(node_id, table_name, columns) ==
    << Mcp("dataset", node_id, [name |-> table_name, aspect |-> "properties"]) >>
    \o (IF DOMAIN columns # {}
        THEN << Mcp("dataset", node_id,
                    [name |-> table_name, aspect |-> "schemaMetadata"]) >>
        ELSE << >>)

\* where an external call of a node's processing may raise: nowhere, at the
\* first parse, or at the last call that sends a record
FailurePoints == {"none", "parse", "emit"}

\* "cte_definitions = {}", filled "if expand_ctes"
CteDefinitionsOf(facts, expand) ==
    IF expand THEN facts.ctes ELSE << >>

\* "table_alias_to_urn = {}", filled "if replace_aliases"
TableAliasToUrn(facts, replace) ==
    IF replace THEN AliasBindings(facts.tables, facts.in_tables) ELSE << >>

\* the columns of lines 1214-1242: a later entry of a name replaces an earlier
TempColumns(facts, expand, replace) ==
    LET cl == SelectSeq(facts.column_lineage, LAMBDA l : l.column # "")
        last(c) == CHOOSE i \in 1..Len(cl) :
                      /\ cl[i].column = c
                      /\ \A k \in 1..Len(cl) : cl[k].column = c => k <= i
        source_expr(l) == IF l.has_logic THEN l.logic
                          ELSE << Col("", l.column) >>
    IN  [c \in { cl[i].column : i \in 1..Len(cl) } |->
            EnhancedLogic(source_expr(cl[last(c)]),
                          CteDefinitionsOf(facts, expand),
                          TableAliasToUrn(facts, replace),
                          expand, replace)]

\* a helper that registers the table before it sends the dataset
RegisteredBeforeEmit(tables, registered) == registered

\* graph.emit_mcp (line 1275) comes before register_temp_table (line 1277):
\* when it raises, the registry is as it was
RegistryAtEmitFailure(tables, registered) == tables

\* The helper returns nothing; its effects are the registry, the node's
\* created_temp_tables and lineage_result, and what it sent.  "raised" tells
\* that the "except Exception" of line 1292 was entered.
_process_temp_table_creation_node(node, tables, expand, replace, fail) ==
    LET facts == StatementFacts(node.sql_text)
        nothing == [temp_tables |-> tables, created |-> << >>,
                    lineage_result |-> FALSE, emitted |-> << >>,
                    raised |-> FALSE]
    IN  IF fail = "parse" \/ facts.cls = "Error"
        THEN [nothing EXCEPT !.raised = TRUE]
        ELSE IF facts.cls # "Create" \/ facts.table_name = ""
        THEN nothing
        ELSE IF ~facts.has_select
        THEN [nothing EXCEPT
                !.temp_tables = register_temp_table(tables, facts.table_name,
                                                    << >>, node.node_id, NoUrn),
                !.created = << facts.table_name >>]
        ELSE LET columns == TempColumns(facts, expand, replace)
                 mcps == DatasetMcps(node.node_id, facts.table_name, columns)
                 registered ==
                    set_column_lineage(
                       register_temp_table(tables, facts.table_name,
                                           columns, node.node_id,
                                           DatasetUrnOf(facts.table_name)),
                       facts.table_name)
             IN  IF fail = "emit"
                 THEN [nothing EXCEPT
                         !.temp_tables = RegistryAtEmitFailure(tables, registered),
                         !.emitted = SubSeq(mcps, 1, Len(mcps) - 1),
                         !.raised = TRUE]
                 ELSE [temp_tables |-> registered,
                       created |-> << facts.table_name >>,
                       lineage_result |-> TRUE,
                       emitted |-> mcps,
                       raised |-> FALSE]

\* a transformOperation that marks every expression as computed
TransformAlwaysSql(l, facts, expand, replace) ==
    IF ~l.has_logic
    THEN [prefix |-> "none", raw |-> << >>, text |-> << >>]
    ELSE [prefix |-> "SQL",
          raw |-> l.logic,
          text |-> EnhancedLogic(l.logic,
                                 CteDefinitionsOf(facts, expand),
                                 TableAliasToUrn(facts, replace),
                                 expand, replace)]

\* transformOperation of one column lineage entry
TransformOperation(l, facts, expand, replace) ==
    IF ~l.has_logic
    THEN [prefix |-> "none", raw |-> << >>, text |-> << >>]
    ELSE [prefix |-> IF l.is_direct_copy THEN "COPY" ELSE "SQL",
          raw |-> l.logic,
          text |-> EnhancedLogic(l.logic,
                                 CteDefinitionsOf(facts, expand),
                                 TableAliasToUrn(facts, replace),
                                 expand, replace)]

\* a check that takes column_error for fatal as well
RaisesOnAnyError(facts, fail) ==
    \/ fail = "parse"
    \/ facts.table_error
    \/ facts.column_error
    \/ facts.out_tables = << >>

\* lines 564-588: the parser raises, or SdkUsageError on table_error and on
\* no out_tables; column_error is logged only
RaisesBeforeLineage(facts, fail) ==
    \/ fail = "parse"
    \/ facts.table_error
    \/ facts.out_tables = << >>

\* a call that sends the query record before it looks at the errors
QuerySentFirst(node) == << Mcp("query", node.node_id, node.sql_text) >>

\* what the call has sent when it reaches the checks of lines 575-588
SentBeforeChecks(node) == << >>

\* What the call for a DML node sends, and whether it raised.
infer_lineage_from_sql_with_enhanced_transformation_logic(node, expand, replace, fail) ==
    LET facts == StatementFacts(node.sql_text)
    IN  IF RaisesBeforeLineage(facts, fail)
        THEN [emitted |-> SentBeforeChecks(node), raised |-> TRUE]
        ELSE
        LET downstream_urn == facts.out_tables[1]
            upstream_tables == SelectSeq(facts.in_tables,
                                         LAMBDA u : u # downstream_urn)
            fine_grained(u) ==
                LET cl == SelectSeq(facts.column_lineage,
                                    LAMBDA l : l.column # "" /\ u \in l.upstreams)
                IN  [i \in 1..Len(cl) |->
                        [column |-> cl[i].column,
                         transform |-> TransformOperation(cl[i], facts,
                                                          expand, replace)]]
            lineage == [i \in 1..Len(upstream_tables) |->
                          Mcp("lineage", node.node_id,
                              [upstream |-> upstream_tables[i],
                               downstream |-> downstream_urn,
                               fine_grained |-> fine_grained(upstream_tables[i])])]
            query_entity == Mcp("query", node.node_id, node.sql_text)
        IN  IF fail = "emit"
            THEN [emitted |-> lineage, raised |-> TRUE]
            ELSE [emitted |-> lineage \o << query_entity >>, raised |-> FALSE]

\* ---- the loop of process_procedure_lineage
DataJob(name, description, inlets, outlets) ==
    [name |-> name, description |-> description, inlets |-> inlets,
     outlets |-> outlets]

\* "for upstream_table in ...: job.set_inlets([upstream_table])"
Inlets(in_tables) ==
    IF in_tables = << >> THEN << >> ELSE << in_tables[Len(in_tables)] >>

\* lines 1400-1405
Outlets(created, tables) ==
    IF created # << >> /\ is_temp_table(tables, created[1])
       /\ tables[Lower(created[1])].dataset_urn.ok
    THEN << tables[Lower(created[1])].dataset_urn >>
    ELSE << >>

\* what the sink is handed while a node is processed
NodeEmissionWithJob(result, job) == result.emitted \o << Mcp("job", job.name, job) >>

NodeEmission(result, job) ==
    result.emitted

NodeFailurePropagates(idx) == [opc |-> "raised", node_idx |-> idx]

\* "except Exception" of lines 1292 and 1437: the loop goes on to the next node
NodeFailureCaught(idx) ==
    [opc |-> "loop", node_idx |-> idx + 1]

\* flow.as_mcps() and job.as_mcps()
FlowMcps == << Mcp("flow", << "flow" >>, << >>) >>
JobMcps(js) == [i \in 1..Len(js) |-> Mcp("job", js[i].name, js[i])]

\* ---- inputs of the orchestrator
TempFromTempStatement ==
    [Stmt("Create", "CREATE TEMPORARY TABLE u AS SELECT t.a FROM t")
        EXCEPT !.kind = "TABLE", !.temporary = TRUE]
TempNoSelectStatement ==
    [Stmt("Create", "CREATE TEMPORARY TABLE T (a INT)")
        EXCEPT !.kind = "TABLE", !.temporary = TRUE]

Parsed(stmts) == [raises |-> FALSE, stmts |-> stmts]

ProcedureTexts ==
    { [hdr |-> "params", segs |-> << >>,
       parse |-> Parsed(<< CreateFunction("FUNCTION", << "p", "q" >>, TRUE,
                                          BlockBody) >>)],
      [hdr |-> "none", segs |-> << >>,
       parse |-> Parsed(<< Stmt("Command", "TRUNCATE TABLE x"),
                           TempTableStatement, TempFromTempStatement,
                           Stmt("Insert", "INSERT INTO z SELECT t.a FROM t") >>)],
      [hdr |-> "params",
       segs |-> << Seg("create_temp_table",
                       "CREATE TEMP TABLE t AS SELECT a FROM y;",
                       {"CREATE", "TEMP"}),
                   Seg("insert", "INSERT INTO z (a) SELECT t.a FROM t;",
                       {"INSERT"}) >>,
       parse |-> Parsed(<< NoneStatement >>)],
      [hdr |-> "none",
       segs |-> << Seg("none", "GET DIAGNOSTICS n = ROW_COUNT;", {}) >>,
       parse |-> [raises |-> TRUE, stmts |-> << >>]],
      [hdr |-> "noparams",
       segs |-> << Seg("none", "GET DIAGNOSTICS n = ROW_COUNT;", {}) >>,
       parse |-> Parsed(<< NoneStatement >>)],
      [hdr |-> "none", segs |-> << >>,
       parse |-> Parsed(<< TempNoSelectStatement,
                           Stmt("Insert",
                                "INSERT INTO z WITH c AS (SELECT a FROM t) SELECT sum(c.a) FROM c"),
                           Stmt("Insert",
                                "INSERT INTO z WITH c AS (SELECT s.a FROM y JOIN w AS s ON y.a = s.a) SELECT sum(c.a) FROM c"),
                           Stmt("Delete", "DELETE FROM z WHERE a = 1"),
                           Stmt("Merge", "MERGE INTO z USING y ON z.a = y.a"),
                           Stmt("Select", "SELECT 1") >>)],
      [hdr |-> "none", segs |-> << >>,
       parse |-> Parsed(<< TempTableStatement, TempNoSelectStatement,
                           TempTableStatement >>)],
      [hdr |-> "none", segs |-> << >>,
       parse |-> Parsed(<< Stmt("Update", "UPDATE z SET a = y.a FROM y@l"),
                           Stmt("Insert",
                                "INSERT OVERWRITE DIRECTORY 'd' SELECT a FROM y"),
                           Stmt("Insert",
                                "INSERT INTO z SELECT * FROM y JOIN w ON y.a = w.a"),
                           Stmt("Insert",
                                "INSERT INTO z SELECT y.a, * FROM y") >>)] }

\* -------------------------------------------------- process_procedure_lineage
\* the call has been entered: lines 1333-1334 are done, the level before them
\* was the one read at import
InitProc ==
    /\ procedure_sql \in ProcedureTexts
    /\ parsed = << >>
    /\ nodes = << >>
    /\ fallback_ran = FALSE
    /\ dpc = "parse"
    /\ expand_ctes \in BOOLEAN
    /\ replace_aliases \in BOOLEAN
    /\ node_idx = 0
    /\ temp_tables = << >>
    /\ created_temp_tables = << >>
    /\ lineage_result = << >>
    /\ jobs = << >>
    /\ emitted = << >>
    /\ failed = {}
    /\ opc = "parse"
    /\ raw_logic = << >>
    /\ ExpandIdle
    /\ ResolveIdle
    /\ ExtractIdle
    /\ BindIdle
    /\ suppress_warnings \in BOOLEAN
    /\ original_sqlglot_level \in SqlglotLevels
    /\ sqlglot_level = LevelAtEntry(suppress_warnings, original_sqlglot_level)

\* lines 1346-1360: the nodes are there, the tracker and the job list are new
ProcBegin ==
    /\ opc = "parse"
    /\ dpc = "done"
    /\ temp_tables' = << >>
    /\ jobs' = << >>
    /\ created_temp_tables' = [i \in 1..Len(nodes) |-> << >>]
    /\ lineage_result' = [i \in 1..Len(nodes) |-> FALSE]
    /\ node_idx' = 1
    /\ opc' = "loop"
    /\ UNCHANGED << expand_ctes, replace_aliases, emitted, failed >>
    /\ UNCHANGED decomposeVars
    /\ UNCHANGED exprVars
    /\ UNCHANGED extractVars
    /\ UNCHANGED bindVars
    /\ UNCHANGED loggerVars

AtNode(types) ==
    /\ opc = "loop"
    /\ node_idx <= Len(nodes)
    /\ nodes[node_idx].node_type \in types

\* lines 1366-1373
ProcStartNode ==
    /\ AtNode({"procedure_start"})
    /\ jobs' = Append(jobs, DataJob(<< "start" >>, "Procedure start", << >>, << >>))
    /\ node_idx' = node_idx + 1
    /\ UNCHANGED << expand_ctes, replace_aliases, temp_tables,
                    created_temp_tables, lineage_result, emitted, failed, opc >>
    /\ UNCHANGED decomposeVars
    /\ UNCHANGED exprVars
    /\ UNCHANGED extractVars
    /\ UNCHANGED bindVars
    /\ UNCHANGED loggerVars

\* lines 1390-1407: the job of a create-temp-table node
TempTableJob(node, result) ==
    DataJob(NodeId(node.sequence_order), "Create temp table",
            IF result.lineage_result
            THEN Inlets(StatementFacts(node.sql_text).in_tables) ELSE << >>,
            IF result.lineage_result
            THEN Outlets(result.created, result.temp_tables) ELSE << >>)

\* lines 1430-1435: the job of a DML node
DmlJob(node) ==
    DataJob(NodeId(node.sequence_order), node.node_type, << >>, << >>)

\* where the loop stands after a node: its processing raised or returned
AfterNode(raised, idx) ==
    IF raised THEN NodeFailureCaught(idx)
    ELSE [opc |-> "loop", node_idx |-> idx + 1]

\* lines 1375-1407
ProcTempTableNode ==
    /\ AtNode({"create_temp_table"})
    /\ \E fail \in FailurePoints :
       \E result \in { _process_temp_table_creation_node(
                           nodes[node_idx], temp_tables, expand_ctes,
                           replace_aliases, fail) } :
       \E job \in { TempTableJob(nodes[node_idx], result) } :
          /\ temp_tables' = result.temp_tables
          /\ created_temp_tables' =
                [created_temp_tables EXCEPT ![node_idx] = @ \o result.created]
          /\ lineage_result' =
                [lineage_result EXCEPT ![node_idx] = result.lineage_result]
          /\ emitted' = emitted \o NodeEmission(result, job)
          /\ jobs' = Append(jobs, job)
          /\ failed' = IF result.raised THEN failed \cup {node_idx} ELSE failed
          /\ opc' = AfterNode(result.raised, node_idx).opc
          /\ node_idx' = AfterNode(result.raised, node_idx).node_idx
    /\ UNCHANGED << expand_ctes, replace_aliases >>
    /\ UNCHANGED decomposeVars
    /\ UNCHANGED exprVars
    /\ UNCHANGED extractVars
    /\ UNCHANGED bindVars
    /\ UNCHANGED loggerVars

\* lines 1409-1440
ProcDmlNode ==
    /\ AtNode({"insert", "update", "delete", "merge"})
    /\ \E fail \in FailurePoints :
       \E result \in { infer_lineage_from_sql_with_enhanced_transformation_logic(
                           nodes[node_idx], expand_ctes, replace_aliases, fail) } :
       \E job \in { DmlJob(nodes[node_idx]) } :
          /\ emitted' = emitted \o NodeEmission(result, job)
          /\ jobs' = IF result.raised THEN jobs ELSE Append(jobs, job)
          /\ failed' = IF result.raised THEN failed \cup {node_idx} ELSE failed
          /\ opc' = AfterNode(result.raised, node_idx).opc
          /\ node_idx' = AfterNode(result.raised, node_idx).node_idx
    /\ sqlglot_level' =
          LevelAtExit(suppress_warnings, original_sqlglot_level,
                      LevelAtEntry(suppress_warnings, sqlglot_level))
    /\ UNCHANGED << expand_ctes, replace_aliases, temp_tables,
                    created_temp_tables, lineage_result >>
    /\ UNCHANGED << suppress_warnings, original_sqlglot_level >>
    /\ UNCHANGED decomposeVars
    /\ UNCHANGED exprVars
    /\ UNCHANGED extractVars
    /\ UNCHANGED bindVars

\* lines 1442-1448
ProcTruncateNode ==
    /\ AtNode({"truncate"})
    /\ jobs' = Append(jobs, DataJob(NodeId(nodes[node_idx].sequence_order),
                                    "TRUNCATE operation", << >>, << >>))
    /\ node_idx' = node_idx + 1
    /\ UNCHANGED << expand_ctes, replace_aliases, temp_tables,
                    created_temp_tables, lineage_result, emitted, failed, opc >>
    /\ UNCHANGED decomposeVars
    /\ UNCHANGED exprVars
    /\ UNCHANGED extractVars
    /\ UNCHANGED bindVars
    /\ UNCHANGED loggerVars

\* a node of any other type falls through the if/elif chain
ProcOtherNode ==
    /\ AtNode({"unknown", "select_into"})
    /\ node_idx' = node_idx + 1
    /\ UNCHANGED << expand_ctes, replace_aliases, temp_tables,
                    created_temp_tables, lineage_result, jobs, emitted, failed,
                    opc >>
    /\ UNCHANGED decomposeVars
    /\ UNCHANGED exprVars
    /\ UNCHANGED extractVars
    /\ UNCHANGED bindVars
    /\ UNCHANGED loggerVars

\* the loop is exhausted: lines 1450-1455
ProcLoopEnd ==
    /\ opc = "loop"
    /\ node_idx > Len(nodes)
    /\ opc' = "emit"
    /\ UNCHANGED << expand_ctes, replace_aliases, node_idx, temp_tables,
                    created_temp_tables, lineage_result, jobs, emitted, failed >>
    /\ UNCHANGED decomposeVars
    /\ UNCHANGED exprVars
    /\ UNCHANGED extractVars
    /\ UNCHANGED bindVars
    /\ UNCHANGED loggerVars

\* lines 1457-1466
ProcEmit ==
    /\ opc = "emit"
    /\ emitted' = emitted \o FlowMcps \o JobMcps(jobs)
    /\ opc' = "done"
    /\ sqlglot_level' =
          LevelAtExit(suppress_warnings, original_sqlglot_level, sqlglot_level)
    /\ UNCHANGED << expand_ctes, replace_aliases, node_idx, temp_tables,
                    created_temp_tables, lineage_result, jobs, failed >>
    /\ UNCHANGED << suppress_warnings, original_sqlglot_level >>
    /\ UNCHANGED decomposeVars
    /\ UNCHANGED exprVars
    /\ UNCHANGED extractVars
    /\ UNCHANGED bindVars

NextProc ==
    \/ DecomposeParse
    \/ DecomposeStructural
    \/ DecomposeFallback
    \/ DecomposeCatchAll
    \/ ProcBegin
    \/ ProcStartNode
    \/ ProcTempTableNode
    \/ ProcDmlNode
    \/ ProcTruncateNode
    \/ ProcOtherNode
    \/ ProcLoopEnd
    \/ ProcEmit

SpecProc == InitProc /\ [][NextProc]_vars

\* the run is one synchronous call: a step that can be taken is taken
FairSpecProc == SpecProc /\ WF_vars(NextProc)

\* the kinds of node the lineage call is made for
DmlTypes == {"insert", "update", "delete", "merge"}

\* ------------------------------- two calls of process_procedure_lineage at once
\* Every variable of the call is kept once per call: x[r] is the x of call r.
Runs == {"first", "second"}

\* parse_procedure_to_nodes as one step: lines 972-1089
parse_procedure_to_nodes(sql) ==
    IF ParseOneRaises(sql) /\ (sql.parse.raises \/ sql.parse.stmts = << >>)
    THEN ParseFailure(sql).nodes
    ELSE LET found == CHOOSE ns \in { StructuralNodes(sql.parse.stmts, 0) } : TRUE
         IN  IF found # << >> THEN found
             ELSE LET matched == CHOOSE ns \in
                                    { _parse_statements_with_regex_fallback(sql) } :
                                    TRUE
                  IN  IF matched # << >> THEN matched
                      ELSE << CatchAllNode(sql) >>

ConcurrentTexts ==
    { [hdr |-> "none", segs |-> << >>,
       parse |-> Parsed(<< TempTableStatement,
                           Stmt("Insert", "INSERT INTO z SELECT t.a FROM t") >>)],
      [hdr |-> "none", segs |-> << >>,
       parse |-> Parsed(<< Stmt("Command", "TRUNCATE TABLE x"),
                           TempFromTempStatement, TempNoSelectStatement >>)],
      [hdr |-> "none", segs |-> << >>,
       parse |-> Parsed(<< TempNoSelectStatement, TempTableStatement >>)] }

\* a tracker kept in one place for all calls
SharedTracker(trackers, r, registry) == [q \in Runs |-> registry]

\* "temp_tracker = TempTableTracker()" is a local of the call: what call r
\* registers goes to the tracker of call r
OwnTracker(trackers, r, registry) ==
    [trackers EXCEPT ![r] = registry]

InitTwoRuns ==
    /\ procedure_sql \in [Runs -> ConcurrentTexts]
    /\ expand_ctes \in BOOLEAN
    /\ replace_aliases \in BOOLEAN
    /\ nodes = [r \in Runs |-> << >>]
    /\ node_idx = [r \in Runs |-> 0]
    /\ temp_tables = [r \in Runs |-> << >>]
    /\ created_temp_tables = [r \in Runs |-> << >>]
    /\ lineage_result = [r \in Runs |-> << >>]
    /\ jobs = [r \in Runs |-> << >>]
    /\ emitted = [r \in Runs |-> << >>]
    /\ failed = [r \in Runs |-> {}]
    /\ opc = [r \in Runs |-> "parse"]
    /\ parsed = << >>
    /\ fallback_ran = FALSE
    /\ dpc = "idle"
    /\ raw_logic = << >>
    /\ ExpandIdle
    /\ ResolveIdle
    /\ ExtractIdle
    /\ BindIdle
    /\ LoggerIdle

\* lines 1346-1360 of call r
RunBegin(r) ==
    /\ opc[r] = "parse"
    /\ \E ns \in { parse_procedure_to_nodes(procedure_sql[r]) } :
          /\ nodes' = [nodes EXCEPT ![r] = ns]
          /\ created_temp_tables' =
                [created_temp_tables EXCEPT ![r] = [i \in 1..Len(ns) |-> << >>]]
          /\ lineage_result' =
                [lineage_result EXCEPT ![r] = [i \in 1..Len(ns) |-> FALSE]]
    /\ temp_tables' = OwnTracker(temp_tables, r, << >>)
    /\ jobs' = [jobs EXCEPT ![r] = << >>]
    /\ node_idx' = [node_idx EXCEPT ![r] = 1]
    /\ opc' = [opc EXCEPT ![r] = "loop"]
    /\ UNCHANGED << procedure_sql, parsed, fallback_ran, dpc, expand_ctes,
                    replace_aliases, emitted, failed >>
    /\ UNCHANGED exprVars
    /\ UNCHANGED extractVars
    /\ UNCHANGED bindVars
    /\ UNCHANGED loggerVars

RunAtNode(r, types) ==
    /\ opc[r] = "loop"
    /\ node_idx[r] <= Len(nodes[r])
    /\ nodes[r][node_idx[r]].node_type \in types

\* lines 1375-1407 of call r
RunTempTableNode(r) ==
    /\ RunAtNode(r, {"create_temp_table"})
    /\ \E fail \in FailurePoints :
       \E result \in { _process_temp_table_creation_node(
                           nodes[r][node_idx[r]], temp_tables[r], expand_ctes,
                           replace_aliases, fail) } :
       \E job \in { TempTableJob(nodes[r][node_idx[r]], result) } :
          /\ temp_tables' = OwnTracker(temp_tables, r, result.temp_tables)
          /\ created_temp_tables' =
                [created_temp_tables EXCEPT ![r][node_idx[r]] = @ \o result.created]
          /\ lineage_result' =
                [lineage_result EXCEPT ![r][node_idx[r]] = result.lineage_result]
          /\ emitted' = [emitted EXCEPT ![r] = @ \o NodeEmission(result, job)]
          /\ jobs' = [jobs EXCEPT ![r] = Append(@, job)]
          /\ failed' = [failed EXCEPT ![r] =
                           IF result.raised THEN @ \cup {node_idx[r]} ELSE @]
    /\ node_idx' = [node_idx EXCEPT ![r] = @ + 1]
    /\ UNCHANGED << procedure_sql, parsed, nodes, fallback_ran, dpc, expand_ctes,
                    replace_aliases, opc >>
    /\ UNCHANGED exprVars
    /\ UNCHANGED extractVars
    /\ UNCHANGED bindVars
    /\ UNCHANGED loggerVars

\* lines 1409-1440 of call r
RunDmlNode(r) ==
    /\ RunAtNode(r, DmlTypes)
    /\ \E fail \in FailurePoints :
       \E result \in { infer_lineage_from_sql_with_enhanced_transformation_logic(
                           nodes[r][node_idx[r]], expand_ctes, replace_aliases,
                           fail) } :
       \E job \in { DmlJob(nodes[r][node_idx[r]]) } :
          /\ emitted' = [emitted EXCEPT ![r] = @ \o NodeEmission(result, job)]
          /\ jobs' = [jobs EXCEPT ![r] = IF result.raised THEN @ ELSE Append(@, job)]
          /\ failed' = [failed EXCEPT ![r] =
                           IF result.raised THEN @ \cup {node_idx[r]} ELSE @]
    /\ node_idx' = [node_idx EXCEPT ![r] = @ + 1]
    /\ UNCHANGED << procedure_sql, parsed, nodes, fallback_ran, dpc, expand_ctes,
                    replace_aliases, temp_tables, created_temp_tables,
                    lineage_result, opc >>
    /\ UNCHANGED exprVars
    /\ UNCHANGED extractVars
    /\ UNCHANGED bindVars
    /\ UNCHANGED loggerVars

\* lines 1366-1373 and 1442-1448 of call r, and the nodes no branch takes
RunPlainNode(r) ==
    /\ RunAtNode(r, {"procedure_start", "truncate", "unknown", "select_into"})
    /\ jobs' = [jobs EXCEPT ![r] =
                   IF nodes[r][node_idx[r]].node_type = "procedure_start"
                   THEN Append(@, DataJob(<< "start" >>, "Procedure start",
                                          << >>, << >>))
                   ELSE IF nodes[r][node_idx[r]].node_type = "truncate"
                   THEN Append(@, DataJob(
                                     NodeId(nodes[r][node_idx[r]].sequence_order),
                                     "TRUNCATE operation", << >>, << >>))
                   ELSE @]
    /\ node_idx' = [node_idx EXCEPT ![r] = @ + 1]
    /\ UNCHANGED << procedure_sql, parsed, nodes, fallback_ran, dpc, expand_ctes,
                    replace_aliases, temp_tables, created_temp_tables,
                    lineage_result, emitted, failed, opc >>
    /\ UNCHANGED exprVars
    /\ UNCHANGED extractVars
    /\ UNCHANGED bindVars
    /\ UNCHANGED loggerVars

\* lines 1450-1462 of call r
RunEmit(r) ==
    /\ opc[r] = "loop"
    /\ node_idx[r] > Len(nodes[r])
    /\ emitted' = [emitted EXCEPT ![r] = @ \o FlowMcps \o JobMcps(jobs[r])]
    /\ opc' = [opc EXCEPT ![r] = "done"]
    /\ UNCHANGED << procedure_sql, parsed, nodes, fallback_ran, dpc, expand_ctes,
                    replace_aliases, node_idx, temp_tables, created_temp_tables,
                    lineage_result, jobs, failed >>
    /\ UNCHANGED exprVars
    /\ UNCHANGED extractVars
    /\ UNCHANGED bindVars
    /\ UNCHANGED loggerVars

NextTwoRuns ==
    \E r \in Runs :
       \/ RunBegin(r)
       \/ RunTempTableNode(r)
       \/ RunDmlNode(r)
       \/ RunPlainNode(r)
       \/ RunEmit(r)

SpecTwoRuns == InitTwoRuns /\ [][NextTwoRuns]_vars


\* ----------------------------------------------------------------- claims
\* C1: AliasResolver is idempotent: resolving the result of a resolution
\* again, under the same bindings, gives the same text.
C1_ResolveIdempotent ==
    rpc = "done" => twice = once

\* C2: the expansion terminates within max_depth passes.  While a call is
\* pending its max_depth is what is left of the requested depth, and a call is
\* pending after a pass only if that pass replaced something; a call with no
\* depth left makes no pass; the text returned is the text the last pass
\* produced (the input when no pass was made); and every run returns.
C2_PassesWithinDepth ==
    /\ passes <= Max(requested_depth, 0)
    /\ xpc = "call" =>
          /\ max_depth = requested_depth - passes
          /\ passes > 0 => (changed /\ max_depth >= 1)
    /\ xpc = "done" =>
          /\ transformation_logic =
                expand_cte_references_recursively(raw_logic, cte_definitions,
                                                  requested_depth)
          /\ passes = 0 => transformation_logic = raw_logic
          /\ (passes > 0 /\ passes < requested_depth) => ~changed

C2_BoundedPasses ==
    /\ [] C2_PassesWithinDepth
    /\ <> (xpc = "done")

\* a self-referential definition, expanded until the depth ran out
C2_Witness ==
    /\ xpc = "done"
    /\ passes = requested_depth
    /\ passes >= 2
    /\ changed
    /\ PassChanged(transformation_logic, cte_definitions)
    /\ Len(transformation_logic) > Len(raw_logic)

\* ---- C3
\* references whose qualifier is a tracked alias (a key of the definitions)
TrackedCount(text, defs) ==
    Cardinality({ i \in 1..Len(text) :
                    text[i].k = "col" /\ text[i].q \in DefNames(defs) })

SetMax(S) == IF S = {} THEN 0 ELSE CHOOSE m \in S : \A n \in S : n <= m

\* number of (alias, column) nodes of the definition graph
NodeCount(defs) ==
    Cardinality({ << i, c >> \in (1..Len(defs)) \X {"x", "t"} :
                    c \in DOMAIN defs[i].cols })

\* longest chain of substitutions starting at a reference of the text,
\* cut off at fuel
RECURSIVE Level(_, _, _)
Level(text, defs, fuel) ==
    IF fuel = 0 THEN 0
    ELSE SetMax({ 1 + Level(Replacement(text[i], defs), defs, fuel - 1) :
                    i \in { j \in 1..Len(text) : Replaced(text[j], defs) } })

\* depth of the definition graph: the number of column definitions on the
\* longest chain, a mapping that holds a definition having at least depth one
GraphDepth(defs) ==
    IF defs = << >> THEN 0
    ELSE Max(1,
         SetMax({ Level(<< Col(defs[n[1]].name, n[2]) >>, defs,
                        NodeCount(defs) + 1) :
                    n \in { m \in (1..Len(defs)) \X {"x", "t"} :
                              m[2] \in DOMAIN defs[m[1]].cols } }))

\* a chain longer than the number of nodes runs through a cycle
Acyclic(defs) == GraphDepth(defs) <= Max(1, NodeCount(defs))

StructuralGaveNothing(sql) ==
    \/ sql.parse.raises
    \/ sql.parse.stmts = << >>
    \/ StructuralNodes(sql.parse.stmts, 0) = << >>

\* C8: the decomposer never raises and returns at least one node; when the
\* structural parse gave nothing and the fallback finds nothing either, the
\* result is the single unknown node numbered 0 that holds the whole text.
C8_AlwaysANode ==
    /\ dpc # "raised"
    /\ dpc = "done" =>
          /\ Len(nodes) >= 1
          /\ (/\ StructuralGaveNothing(procedure_sql)
              /\ _parse_statements_with_regex_fallback(procedure_sql) = << >>)
             => nodes = << ProcedureNode(NodeId(0), "unknown",
                                         WholeText(procedure_sql), 0) >>

\* a text that sqlglot splits into no statement and no pattern matches
C8_Witness ==
    /\ dpc = "done"
    /\ fallback_ran
    /\ ~procedure_sql.parse.raises
    /\ procedure_sql.segs # << >>
    /\ nodes = << CatchAllNode(procedure_sql) >>

\* C9: whenever structural parsing throws or yields no node the fallback
\* splitter is run, and the catch-all node stands only where the fallback
\* produced no node.
C9_FallbackBeforeCatchAll ==
    (dpc = "done" /\ StructuralGaveNothing(procedure_sql))
    => /\ fallback_ran
       /\ _parse_statements_with_regex_fallback(procedure_sql) # << >>
            => nodes = _parse_statements_with_regex_fallback(procedure_sql)

\* C10: in the list returned, sequence_order strictly increases along the
\* list, and no node_id occurs twice.
C10_SequenceStrictlyIncreasing ==
    dpc = "done" =>
       \A i, j \in 1..Len(nodes) :
          i < j => /\ nodes[i].sequence_order < nodes[j].sequence_order
                   /\ nodes[i].node_id # nodes[j].node_id

\* a fallback result that starts with the parameter node
C10_Witness ==
    /\ dpc = "done"
    /\ fallback_ran
    /\ Len(nodes) >= 3
    /\ nodes[1].node_type = "procedure_start"

\* ---- C11
\* where a statement first starts: its place among the pieces of the text
FirstPlace(texts, text) ==
    CHOOSE p \in 1..Len(texts) :
       /\ texts[p] = text
       /\ \A k \in 1..(p - 1) : texts[k] # text

\* the pieces of a procedure text as the fallback reads them
FallbackTexts(sql) ==
    [i \in 1..Len(sql.segs) |-> NormalizedText(sql.segs[i].raw)]

\* the nodes that stand for statements
StatementNodesOf(ns) ==
    SelectSeq(ns, LAMBDA n : n.node_type # "procedure_start")

\* the text is one CREATE FUNCTION / PROCEDURE with a body
OneFunctionWithBody(sql) ==
    /\ ~sql.parse.raises
    /\ Len(sql.parse.stmts) = 1
    /\ sql.parse.stmts[1].cls = "Create"
    /\ sql.parse.stmts[1].kind \in {"FUNCTION", "PROCEDURE"}
    /\ sql.parse.stmts[1].has_body

\* C11: node order is source order.  Of two nodes the fallback gave, and of
\* two nodes extracted from a function body, the one whose statement starts
\* earlier in the text has the smaller sequence_order.
C11_NodeOrderIsSourceOrder ==
    dpc = "done" =>
       LET ns == StatementNodesOf(nodes)
       IN  /\ (fallback_ran /\ nodes # << CatchAllNode(procedure_sql) >>) =>
                \A i, j \in 1..Len(ns) :
                   FirstPlace(FallbackTexts(procedure_sql), ns[i].sql_text[1])
                      < FirstPlace(FallbackTexts(procedure_sql), ns[j].sql_text[1])
                   => ns[i].sequence_order < ns[j].sequence_order
           /\ (~fallback_ran /\ OneFunctionWithBody(procedure_sql)) =>
                LET source == procedure_sql.parse.stmts[1].body.source
                IN  \A i, j \in 1..Len(ns) :
                       FirstPlace(source, ns[i].sql_text[1])
                          < FirstPlace(source, ns[j].sql_text[1])
                       => ns[i].sequence_order < ns[j].sequence_order

\* ---- C12
\* the nodes processed so far that registered a name lowercasing to key
RegistrationsOf(key) ==
    { i \in 1..Len(created_temp_tables) :
         \E j \in 1..Len(created_temp_tables[i]) :
            Lower(created_temp_tables[i][j]) = key }

\* what the registration of a create-temp-table node hands the registry
RegistrationOf(node) ==
    LET facts == StatementFacts(node.sql_text)
    IN  IF facts.has_select
        THEN [TempTableInfo(facts.table_name,
                            TempColumns(facts, expand_ctes, replace_aliases),
                            node.node_id, DatasetUrnOf(facts.table_name))
                 EXCEPT !.column_lineage = TRUE]
        ELSE TempTableInfo(facts.table_name, << >>, node.node_id, NoUrn)

\* C12: registering a name that is already registered (compared after
\* lowercasing) replaces the entry: the registry holds exactly one entry for
\* the name, and its columns, creating-node id and identifier are those of
\* the later registration.
C12_LaterRegistrationReplaces ==
    \A key \in DOMAIN temp_tables :
       /\ RegistrationsOf(key) # {}
       /\ temp_tables[key] = RegistrationOf(nodes[SetMax(RegistrationsOf(key))])
       /\ Cardinality({ n \in DOMAIN temp_tables :
                          Lower(temp_tables[n].table_name) = key }) = 1

C12_Witness ==
    \E key \in DOMAIN temp_tables :
       /\ Cardinality(RegistrationsOf(key)) >= 2
       /\ \E i \in RegistrationsOf(key) :
             /\ i < SetMax(RegistrationsOf(key))
             /\ RegistrationOf(nodes[i]).columns
                   # temp_tables[key].columns
             /\ RegistrationOf(nodes[i]).table_name # temp_tables[key].table_name

\* ---- C13
\* the nodes the loop has passed
Processed == IF opc = "parse" THEN {} ELSE 1..(node_idx - 1)

\* the lineage and query records the sink got for a node
SentFor(node) ==
    SelectSeq(emitted, LAMBDA r : r.kind \in {"lineage", "query"}
                                  /\ r.node = node.node_id)

\* base parsing reports a table error or no output table
TableErrorOrNoOutput(node) ==
    \/ StatementFacts(node.sql_text).table_error
    \/ StatementFacts(node.sql_text).out_tables = << >>

\* C13: on a table-resolution error, or when no output table is found, the
\* call raises before anything is sent: no lineage record and no query record
\* of that statement reaches the sink.
C13_RaisesBeforeAnythingIsSent ==
    dpc = "done" =>
       \A i \in 1..Len(nodes) :
          (nodes[i].node_type \in DmlTypes /\ TableErrorOrNoOutput(nodes[i])) =>
             /\ \A fail \in FailurePoints :
                   LET r == infer_lineage_from_sql_with_enhanced_transformation_logic(
                               nodes[i], expand_ctes, replace_aliases, fail)
                   IN  r.raised /\ r.emitted = << >>
             /\ i \in Processed => (i \in failed /\ SentFor(nodes[i]) = << >>)

C13_Witness ==
    /\ opc = "done"
    /\ \E i \in Processed :
          /\ nodes[i].node_type \in DmlTypes
          /\ StatementFacts(nodes[i].sql_text).table_error
          /\ i \in failed
    /\ \E i \in Processed :
          /\ nodes[i].node_type \in DmlTypes
          /\ ~StatementFacts(nodes[i].sql_text).table_error
          /\ StatementFacts(nodes[i].sql_text).out_tables = << >>
          /\ i \in failed

\* ---- C14
\* base parsing reports a column error only
ColumnErrorOnly(node) ==
    /\ StatementFacts(node.sql_text).column_error
    /\ ~TableErrorOrNoOutput(node)

\* the upstream tables of a statement: its in_tables but the downstream
UpstreamTablesOf(node) ==
    LET facts == StatementFacts(node.sql_text)
    IN  { facts.in_tables[j] : j \in 1..Len(facts.in_tables) }
           \ { facts.out_tables[1] }

\* the records are a lineage record for every upstream table, with a
\* fine-grained entry for every resolved column of it, and the query record
LineageAndQueryIn(records, node) ==
    LET facts == StatementFacts(node.sql_text)
    IN  /\ \A u \in UpstreamTablesOf(node) :
              \E k \in 1..Len(records) :
                 /\ records[k].kind = "lineage"
                 /\ records[k].body.upstream = u
                 /\ records[k].body.downstream = facts.out_tables[1]
                 /\ \A c \in 1..Len(facts.column_lineage) :
                       u \in facts.column_lineage[c].upstreams =>
                          \E f \in 1..Len(records[k].body.fine_grained) :
                             records[k].body.fine_grained[f].column
                                = facts.column_lineage[c].column
        /\ \E k \in 1..Len(records) :
              /\ records[k].kind = "query"
              /\ records[k].node = node.node_id
              /\ records[k].body = node.sql_text

ReferencesTempTableOf(j, i, name) ==
    /\ i < j
    /\ \E k \in 1..Len(created_temp_tables[i]) :
          created_temp_tables[i][k] = name
    /\ \E k \in 1..Len(StatementFacts(nodes[j].sql_text).in_tables) :
          StatementFacts(nodes[j].sql_text).in_tables[k] = DatasetUrnOf(name)

Elements(seq) == { seq[k] : k \in 1..Len(seq) }

\* C15: a node that references a temp table registered by an earlier node of
\* the run carries the table in used_temp_tables and is linked to the
\* creating node through upstream_nodes / downstream_nodes.
C15_TempTableDependencyRecorded ==
    opc = "done" =>
       \A i, j \in 1..Len(nodes) :
          \A name \in {"t", "u", "T"} :
             ReferencesTempTableOf(j, i, name) =>
                /\ name \in Elements(nodes[j].used_temp_tables)
                /\ nodes[i].node_id \in Elements(nodes[j].upstream_nodes)
                /\ nodes[j].node_id \in Elements(nodes[i].downstream_nodes)

\* ---- C16
\* the node a record of the sink belongs to
NodeWithId(id) == CHOOSE n \in Elements(nodes) : n.node_id = id

\* the Definitions and the alias bindings of a statement, as the two options
\* being on give them
DefinitionsOfStatement(node) == StatementFacts(node.sql_text).ctes
BindingsOfStatement(node) ==
    AliasBindings(StatementFacts(node.sql_text).tables,
                  StatementFacts(node.sql_text).in_tables)

ExpandStep(raw, node) ==
    expand_cte_references_recursively(raw, DefinitionsOfStatement(node),
                                      DefaultMaxDepth)
ResolveStep(text, node) ==
    replace_table_aliases_with_names(text, BindingsOfStatement(node))

\* the fine-grained entries the sink got, each with the node it belongs to
FineGrainedSent ==
    { [node |-> NodeWithId(emitted[k].node),
       entry |-> emitted[k].body.fine_grained[f]] :
         << k, f >> \in { << k, f >> \in (1..Len(emitted)) \X (1..2) :
                            /\ emitted[k].kind = "lineage"
                            /\ f <= Len(emitted[k].body.fine_grained) } }

\* C16: the expression of an output column is the composition the two options
\* select, expansion before alias resolution: resolve(expand(raw)),
\* resolve(raw), expand(raw) or raw; each step is the same step whether or not
\* the other option is on.
C16_ComposedBySelectedOptions ==
    \A g \in FineGrainedSent :
       g.entry.transform.prefix # "none" =>
          LET raw == g.entry.transform.raw
              expanded == IF expand_ctes THEN ExpandStep(raw, g.node) ELSE raw
          IN  g.entry.transform.text =
                 IF replace_aliases THEN ResolveStep(expanded, g.node)
                 ELSE expanded

C16_Witness ==
    /\ expand_ctes
    /\ replace_aliases
    /\ \E g \in FineGrainedSent :
          /\ g.entry.transform.prefix # "none"
          /\ g.entry.transform.text # g.entry.transform.raw
          /\ g.entry.transform.text # ExpandStep(g.entry.transform.raw, g.node)
          /\ g.entry.transform.text # ResolveStep(g.entry.transform.raw, g.node)
          /\ g.entry.transform.text
                # ExpandStep(ResolveStep(g.entry.transform.raw, g.node), g.node)

\* ---- C17
\* how often a token stands in a text
Count(tok, text) == Cardinality({ i \in 1..Len(text) : text[i] = tok })

\* a column reference whose qualifier is neither a Definition nor a bound alias
ForeignReference(tok) ==
    /\ tok.k = "col"
    /\ tok.q # ""
    /\ tok.q \notin DefNames(cte_definitions)
    /\ tok.q \notin DOMAIN table_alias_to_urn

\* C17 as claimed: such a reference is left unmodified by the expander and by
\* the resolver, whatever the definitions are, also when some Definition
\* exports a column named like the qualifier.
C17_ForeignReferenceUntouched ==
    rpc = "done" =>
       /\ \A tok \in Elements(raw_logic) :
             ForeignReference(tok) =>
                Count(tok, transformation_logic) >= Count(tok, raw_logic)
       /\ \A tok \in Elements(transformation_logic) :
             ForeignReference(tok) =>
                Count(tok, once) >= Count(tok, transformation_logic)

\* C17 as amended: the resolver leaves every such reference alone; the
\* expander leaves it alone unless some Definition exports a column named like
\* the qualifier.
C17_ForeignReferenceUntouchedUnlessExported ==
    rpc = "done" =>
       /\ \A tok \in Elements(raw_logic) :
             (/\ ForeignReference(tok)
              /\ ~check_if_provided_name_is_columns_of_another_cte(
                     tok.q, cte_definitions)) =>
                Count(tok, transformation_logic) >= Count(tok, raw_logic)
       /\ \A tok \in Elements(transformation_logic) :
             ForeignReference(tok) =>
                Count(tok, once) >= Count(tok, transformation_logic)

C17_Witness ==
    /\ rpc = "done"
    /\ transformation_logic # raw_logic
    /\ once # transformation_logic
    /\ \E tok \in Elements(raw_logic) :
          /\ ForeignReference(tok)
          /\ tok \in Elements(once)
          /\ \E i \in 1..Len(cte_definitions) :
                tok.c \in DOMAIN cte_definitions[i].cols

\* ---- C18
\* call r took no step
Stays(r) == opc'[r] = opc[r] /\ node_idx'[r] = node_idx[r]

\* C18: each call works on its own tracker, which starts empty: a step of one
\* call leaves the tracker of the other as it is, and what a call adds to its
\* tracker is the table of the node that call is at.
C18_TrackersAreSeparate ==
    [][\A r \in Runs :
          /\ Stays(r) => temp_tables'[r] = temp_tables[r]
          /\ (opc[r] = "parse" /\ opc'[r] = "loop") => temp_tables'[r] = << >>
          /\ \A key \in DOMAIN temp_tables'[r] :
                (\/ key \notin DOMAIN temp_tables[r]
                 \/ temp_tables'[r][key] # temp_tables[r][key]) =>
                   /\ node_idx'[r] = node_idx[r] + 1
                   /\ key = Lower(StatementFacts(
                                     nodes[r][node_idx[r]].sql_text).table_name)
    ]_vars

\* both calls are in their loops, each has registered a table, and the two
\* trackers differ
C18_Witness ==
    /\ \A r \in Runs :
          /\ opc[r] = "loop"
          /\ DOMAIN temp_tables[r] # {}
    /\ temp_tables["first"] # temp_tables["second"]
    /\ \E key \in DOMAIN temp_tables["first"] \cap DOMAIN temp_tables["second"] :
          temp_tables["first"][key] # temp_tables["second"][key]
    /\ \E key \in DOMAIN temp_tables["first"] :
          key \notin DOMAIN temp_tables["second"]

\* ---- C19
\* the column lineage entries of a node's statement for a column
LineageOf(node, column) ==
    { l \in Elements(StatementFacts(node.sql_text).column_lineage) :
         l.column = column }

\* the expression as the two options leave it
EnhancedExpression(raw, node) ==
    LET expanded == IF expand_ctes THEN ExpandStep(raw, node) ELSE raw
    IN  IF replace_aliases THEN ResolveStep(expanded, node) ELSE expanded

\* C19: a fine-grained fact of a column with logic carries "COPY: " and the
\* enhanced expression when base lineage marked the column a direct copy,
\* "SQL: " and the expression otherwise; a column without logic carries no
\* transformOperation.
C19_CopyOrSqlPrefix ==
    \A g \in FineGrainedSent :
       /\ LineageOf(g.node, g.entry.column) # {}
       /\ \A l \in LineageOf(g.node, g.entry.column) :
             IF l.has_logic
             THEN /\ g.entry.transform.prefix =
                        (IF l.is_direct_copy THEN "COPY" ELSE "SQL")
                  /\ g.entry.transform.text = EnhancedExpression(l.logic, g.node)
             ELSE /\ g.entry.transform.prefix = "none"
                  /\ g.entry.transform.text = << >>

C19_Witness ==
    /\ opc = "done"
    /\ \E g \in FineGrainedSent : g.entry.transform.prefix = "COPY"
    /\ \E g \in FineGrainedSent :
          /\ g.entry.transform.prefix = "SQL"
          /\ g.entry.transform.text # g.entry.transform.raw
    /\ \E g \in FineGrainedSent : g.entry.transform.prefix = "none"

\* ---- C20
\* C20: only the processing of a create-temp-table node changes the registry,
\* and not when that processing fails; a node of any other kind leaves the
\* registry as it is.
C20_OnlyCreateTempTableRegisters ==
    [][temp_tables' # temp_tables =>
          /\ AtNode({"create_temp_table"})
          /\ node_idx' = node_idx + 1
          /\ node_idx \notin failed'
          /\ DOMAIN temp_tables' =
                DOMAIN temp_tables
                   \cup { Lower(StatementFacts(nodes[node_idx].sql_text).table_name) }
    ]_vars

\* the run is over: a table is registered, a create-temp-table node failed,
\* and nodes of the other kinds were processed after a registration
C20_Witness ==
    /\ opc = "done"
    /\ DOMAIN temp_tables # {}
    /\ \E i \in failed : nodes[i].node_type = "create_temp_table"
    /\ \E i, j \in 1..Len(nodes) :
          /\ i < j
          /\ created_temp_tables[i] # << >>
          /\ nodes[j].node_type \in DmlTypes

\* ---- C21
\* C21: after a create-temp-table node is processed every name of its
\* created_temp_tables is registered, under this node's id unless a later node
\* created the name again; a CREATE TEMP TABLE without a single SELECT as body
\* is registered too, with an empty column map.
C21_CreatedTablesAreRegistered ==
    opc # "parse" =>
       \A i \in 1..Len(created_temp_tables) :
          \A k \in 1..Len(created_temp_tables[i]) :
             LET name == created_temp_tables[i][k]
                 facts == StatementFacts(nodes[i].sql_text)
             IN  /\ nodes[i].node_type = "create_temp_table"
                 /\ Lower(name) \in DOMAIN temp_tables
                 /\ SetMax(RegistrationsOf(Lower(name))) = i =>
                       /\ temp_tables[Lower(name)].created_in_node_id
                             = nodes[i].node_id
                       /\ temp_tables[Lower(name)].table_name = name
                       /\ ~facts.has_select =>
                             DOMAIN temp_tables[Lower(name)].columns = {}

\* the run is over; a table without SELECT body is registered by its node, and
\* another node's table was created again by a later node
C21_Witness ==
    /\ opc = "done"
    /\ \E i \in 1..Len(created_temp_tables) :
          /\ created_temp_tables[i] # << >>
          /\ ~StatementFacts(nodes[i].sql_text).has_select
          /\ SetMax(RegistrationsOf(Lower(created_temp_tables[i][1]))) = i
    /\ \E i \in 1..Len(created_temp_tables) :
          /\ created_temp_tables[i] # << >>
          /\ SetMax(RegistrationsOf(Lower(created_temp_tables[i][1]))) > i

\* ---- C22
\* the first statement sqlglot.parse returns is a function or procedure
\* definition
DecomposedFunction(sql) ==
    /\ ~sql.parse.raises
    /\ sql.parse.stmts # << >>
    /\ sql.parse.stmts[1].cls = "Create"
    /\ sql.parse.stmts[1].kind \in {"FUNCTION", "PROCEDURE"}

\* C22: the first node of a decomposed function or procedure is of kind
\* procedure-start, also when the definition declares no parameters; so in
\* the structural path, and in the fallback for a text with a function header.
C22_FirstNodeIsProcedureStart ==
    dpc = "done" =>
       /\ (~fallback_ran /\ DecomposedFunction(procedure_sql))
             => nodes[1].node_type = "procedure_start"
       /\ (/\ fallback_ran
           /\ procedure_sql.hdr # "none"
           /\ nodes # << CatchAllNode(procedure_sql) >>)
             => nodes[1].node_type = "procedure_start"

\* ---- C23
\* C23: in the structural path each top-level statement of a function body
\* yields exactly one node and nothing else does: the statement nodes are as
\* many as the top-level statements of the body, and each carries the text of
\* one of them (never that of a SELECT nested in another statement).
C23_OneNodePerTopLevelStatement ==
    (dpc = "done" /\ ~fallback_ran /\ OneFunctionWithBody(procedure_sql)) =>
       LET ns == StatementNodesOf(nodes)
           top == procedure_sql.parse.stmts[1].body.top
       IN  /\ Len(ns) = Len(top)
           /\ \A i \in 1..Len(ns) :
                 \E k \in 1..Len(top) : ns[i].sql_text = << top[k] >>

\* ---- C24
\* the definitions of a statement: its CTEs, then its parenthesised join
\* operands
DefinitionNodes(stmt) ==
    stmt.ctes \o SelectSeq(stmt.joins, LAMBDA j : j.cls = "Subquery")

\* no other definition of the statement has the alias of the k-th
OnlyUnderItsAlias(defs, k) ==
    \A j \in 1..Len(defs) : j # k => defs[j].alias # defs[k].alias

\* f"_col_{i}"
PositionalName(i) == << "_col_0", "_col_1", "_col_2" >>[i + 1]

\* C24: every non-wildcard projection of a CTE or derived-table SELECT body
\* is recorded, under its explicit alias when it has one and otherwise under
\* _col_i, i its zero-based position.
C24_EveryProjectionRecorded ==
    epc = "done" =>
       LET defs == DefinitionNodes(optimized_statement)
       IN  \A k \in 1..Len(defs) :
              (/\ defs[k].alias # ""
               /\ defs[k].this.cls = "Select"
               /\ OnlyUnderItsAlias(defs, k)) =>
                 /\ defs[k].alias \in DefNames(cte_definitions)
                 /\ \A i \in 1..Len(defs[k].this.expressions) :
                       LET select_col == defs[k].this.expressions[i]
                           key == IF ProjectionAlias(select_col) # ""
                                  THEN ProjectionAlias(select_col)
                                  ELSE PositionalName(i - 1)
                           cols == DefOf(cte_definitions, defs[k].alias).cols
                       IN  ProjectionName(select_col) # "*" =>
                              /\ key \in DOMAIN cols
                              /\ cols[key] = Sql(select_col)

\* ---- C25
\* C25: every aliased CTE or aliased join-operand subquery whose body is not
\* a single SELECT is in the extracted mapping under its alias, with an empty
\* column map; only definitions without an alias are absent.
C25_NonSelectBodyRecordedEmpty ==
    epc = "done" =>
       LET defs == DefinitionNodes(optimized_statement)
       IN  \A k \in 1..Len(defs) :
              defs[k].alias # "" =>
                 /\ defs[k].alias \in DefNames(cte_definitions)
                 /\ (defs[k].this.cls # "Select" /\ OnlyUnderItsAlias(defs, k))
                       => DOMAIN DefOf(cte_definitions, defs[k].alias).cols = {}

\* ---- C26
\* the qualifier of the reference is no Definition alias and several
\* Definitions export a column of that name
ExportedBySeveral(tok, defs) ==
    /\ tok.k = "col"
    /\ tok.q # ""
    /\ tok.q \notin DefNames(defs)
    /\ Cardinality({ i \in 1..Len(defs) : tok.q \in DOMAIN defs[i].cols }) > 1

\* the expression of the first Definition, in the order of the mapping, that
\* exports the name
ExpressionOfFirst(tok, defs) ==
    LET first == CHOOSE i \in 1..Len(defs) :
                    /\ tok.q \in DOMAIN defs[i].cols
                    /\ \A j \in 1..(i - 1) : tok.q \notin DOMAIN defs[j].cols
    IN  StripAlias(defs[first].cols[tok.q])

\* C26: in a pass, a reference whose qualifier is no Definition alias but a
\* column name exported by several Definitions is replaced once, by the
\* expression of the first of them in the order of the mapping; the later ones
\* do not change the result.
C26_FirstExportingDefinitionWins ==
    [][(xpc = "call" /\ passes' = passes + 1) =>
          transformation_logic' =
             Sql(Flatten([i \in 1..Len(transformation_logic) |->
                    LET tok == transformation_logic[i]
                    IN  IF ExportedBySeveral(tok, cte_definitions)
                        THEN ExpressionOfFirst(tok, cte_definitions)
                        ELSE IF Replaced(tok, cte_definitions)
                        THEN Replacement(tok, cte_definitions)
                        ELSE << tok >>]))
    ]_vars

\* ---- C27
\* the upstream identifiers, by position, that contain the name of a table
\* reference
Containing(ref) ==
    { j \in 1..Len(parsed_in_tables) : OccursIn(ref.name, parsed_in_tables[j]) }

SetMin(S) == CHOOSE m \in S : \A n \in S : m <= n

\* the first of them
FirstContaining(ref) ==
    parsed_in_tables[SetMin(Containing(ref))]

\* C27 as claimed: for every table reference of the statement its alias (its
\* name when it has none) is bound to the first upstream identifier that
\* contains the table name, and has no binding when none contains it.
C27_AliasBoundToFirstContaining ==
    bpc = "done" =>
       \A i \in 1..Len(table_refs) :
          IF Containing(table_refs[i]) = {}
          THEN table_refs[i].alias \notin DOMAIN table_alias_to_urn
          ELSE /\ table_refs[i].alias \in DOMAIN table_alias_to_urn
               /\ table_alias_to_urn[table_refs[i].alias]
                     = FirstContaining(table_refs[i])

\* another table reference under the same alias, with a containing identifier
SharesAliasWith(i, k) ==
    /\ k # i
    /\ table_refs[k].alias = table_refs[i].alias
    /\ Containing(table_refs[k]) # {}

\* C27 as amended: the same, except that of several table references under
\* one alias the last one with a containing identifier decides the binding of
\* the alias.
C27_LastReferenceOfAliasDecides ==
    bpc = "done" =>
       /\ \A i \in 1..Len(table_refs) :
             IF Containing(table_refs[i]) = {}
             THEN (\A k \in 1..Len(table_refs) : ~SharesAliasWith(i, k))
                     => table_refs[i].alias \notin DOMAIN table_alias_to_urn
             ELSE /\ table_refs[i].alias \in DOMAIN table_alias_to_urn
                  /\ (\A k \in (i + 1)..Len(table_refs) : ~SharesAliasWith(i, k))
                        => table_alias_to_urn[table_refs[i].alias]
                              = FirstContaining(table_refs[i])
       /\ \A alias \in DOMAIN table_alias_to_urn :
             \E i \in 1..Len(table_refs) :
                /\ table_refs[i].alias = alias
                /\ Containing(table_refs[i]) # {}

\* a reference bound to the first of two different identifiers that contain
\* its name, next to a reference no identifier contains
C27_Witness ==
    /\ bpc = "done"
    /\ \E i \in 1..Len(table_refs) :
          /\ Cardinality({ parsed_in_tables[j] : j \in Containing(table_refs[i]) }) = 2
          /\ table_alias_to_urn[table_refs[i].alias] = parsed_in_tables[1]
    /\ \E i \in 1..Len(table_refs) :
          /\ Containing(table_refs[i]) = {}
          /\ table_refs[i].alias \notin DOMAIN table_alias_to_urn

\* ---- C28
\* the kind of the statement-shape pattern that matched a text
PatternOf(sql, text) ==
    CHOOSE p \in { patterns[k] : k \in 1..Len(patterns) } :
       \E i \in 1..Len(sql.segs) :
          /\ sql.segs[i].pat = p
          /\ NormalizedText(sql.segs[i].raw) = text

\* C28: in the fallback the kind of each node is the kind of the pattern that
\* matched its text; a statement the insert, update, delete or merge pattern
\* matched is never of kind truncate or create-temp-table.
C28_KindIsKindOfMatchedPattern ==
    (dpc = "done" /\ fallback_ran /\ nodes # << CatchAllNode(procedure_sql) >>) =>
       \A i \in 1..Len(nodes) :
          nodes[i].node_type # "procedure_start" =>
             LET p == PatternOf(procedure_sql, nodes[i].sql_text[1])
             IN  /\ nodes[i].node_type = p
                 /\ p \in DmlTypes =>
                       nodes[i].node_type \notin {"truncate", "create_temp_table"}

\* ---- C29
\* C29: with suppress_warnings on, the level of the logger "sqlglot" is ERROR
\* from the entry of process_procedure_lineage until the run exits, so also
\* while the nodes after the first DML node are processed, and it is the
\* original level again once the run has exited.
C29_LevelIsErrorUntilExit ==
    suppress_warnings =>
       /\ opc \in {"parse", "loop", "emit"} => sqlglot_level = "ERROR"
       /\ opc \in {"done", "raised"} => sqlglot_level = original_sqlglot_level

\* ---- C30
\* the pieces of the text that a statement-shape pattern matches, in the order
\* they start
MatchedTexts(sql) ==
    SelectSeq([i \in 1..Len(sql.segs) |->
                  IF sql.segs[i].pat = "none" THEN ""
                  ELSE NormalizedText(sql.segs[i].raw)],
              LAMBDA text : text # "")

\* C30: the statement texts of the fallback are pairwise distinct: every
\* matched statement has one node, that of its first occurrence, so there can
\* be fewer nodes than matches, and the nodes stand in source order.
C30_FallbackTextsAreDistinct ==
    (dpc = "done" /\ fallback_ran /\ nodes # << CatchAllNode(procedure_sql) >>) =>
       LET ns == StatementNodesOf(nodes)
           matched == MatchedTexts(procedure_sql)
       IN  /\ \A i, j \in 1..Len(ns) : i # j => ns[i].sql_text # ns[j].sql_text
           /\ \A k \in 1..Len(matched) :
                 \E i \in 1..Len(ns) : ns[i].sql_text = << matched[k] >>
           /\ Len(ns) <= Len(matched)
           /\ \A i, j \in 1..Len(ns) :
                 i < j => FirstPlace(matched, ns[i].sql_text[1])
                             < FirstPlace(matched, ns[j].sql_text[1])

\* two matches, the same statement written with different spacing: one node
C30_Witness ==
    /\ dpc = "done"
    /\ fallback_ran
    /\ Len(MatchedTexts(procedure_sql)) = 2
    /\ procedure_sql.segs[1].raw # procedure_sql.segs[2].raw
    /\ NormalizedText(procedure_sql.segs[1].raw)
          = NormalizedText(procedure_sql.segs[2].raw)
    /\ Len(StatementNodesOf(nodes)) = 1

\* ---- C4
\* sequence number held by a node id
SequenceOf(node_id) == node_id[2]

\* the reference names a column of a temp table that a node before the one
\* numbered seq registered
RegisteredEarlier(tok, seq) ==
    /\ tok.k = "col"
    /\ is_temp_table(temp_tables, tok.q)
    /\ tok.c \in DOMAIN temp_tables[Lower(tok.q)].columns
    /\ SequenceOf(temp_tables[Lower(tok.q)].created_in_node_id) < seq

RegisteredExpression(tok) ==
    temp_tables[Lower(tok.q)].columns[tok.c]

\* C4: with expansion on, a column whose logic is a reference t.a to a temp
\* table registered by an earlier node gets the expression registered for
\* column a of t: in the lineage a DML node sends, and in the columns a
\* create-temp-table node registers.
C4_TempTableReferenceExpanded ==
    (opc \in {"loop", "emit", "done"} /\ expand_ctes) =>
       /\ \A i \in 1..Len(emitted) :
             emitted[i].kind = "lineage" =>
                \A k \in 1..Len(emitted[i].body.fine_grained) :
                   LET op == emitted[i].body.fine_grained[k].transform
                   IN  (/\ Len(op.raw) = 1
                        /\ RegisteredEarlier(op.raw[1],
                                             SequenceOf(emitted[i].node)))
                       => op.text = RegisteredExpression(op.raw[1])
       /\ \A i \in 1..Len(nodes) :
             (i < node_idx /\ lineage_result[i]) =>
                LET facts == StatementFacts(nodes[i].sql_text)
                    cl == facts.column_lineage
                IN  \A k \in 1..Len(cl) :
                       (/\ Len(cl[k].logic) = 1
                        /\ RegisteredEarlier(cl[k].logic[1],
                                             nodes[i].sequence_order))
                       => temp_tables[Lower(facts.table_name)].columns[cl[k].column]
                             = RegisteredExpression(cl[k].logic[1])

\* ---- C5
KindsOf(mcps) == { mcps[i].kind : i \in 1..Len(mcps) }

\* C5 as stated: nothing reaches the sink before the node loop has finished.
C5_NothingSentBeforeLoopEnd ==
    opc \in {"parse", "loop"} => emitted = << >>

\* C5 as amended: flow and job records reach the sink only after the node
\* loop has finished, as the closing part of what was sent; what is sent
\* while the loop runs are the dataset records of create-temp-table nodes and
\* the lineage and query records of DML nodes, each by a node already reached.
C5_FlowAndJobsAfterLoop ==
    /\ opc \in {"parse", "loop", "emit"} =>
          /\ KindsOf(emitted) \subseteq {"dataset", "lineage", "query"}
          /\ \A i \in 1..Len(emitted) :
                \E n \in 1..Len(nodes) :
                   /\ n < node_idx \/ n \in failed
                   /\ nodes[n].node_id = emitted[i].node
    /\ opc = "done" =>
          \E n \in 0..Len(emitted) :
             /\ KindsOf(SubSeq(emitted, 1, n))
                   \subseteq {"dataset", "lineage", "query"}
             /\ SubSeq(emitted, n + 1, Len(emitted)) = FlowMcps \o JobMcps(jobs)

\* a node failed after an earlier node's records had gone to the sink, the
\* loop still running
C5_Witness ==
    /\ opc = "loop"
    /\ \E n \in failed :
          \E i \in 1..Len(emitted) :
             SequenceOf(emitted[i].node) < nodes[n].sequence_order

\* ---- C6
JobsEmitted ==
    Cardinality({ i \in 1..Len(emitted) : emitted[i].kind = "job" })

\* C6: at the end of a run the number of job records emitted equals the
\* number of nodes the decomposer returned.
C6_OneJobPerNode ==
    opc = "done" => JobsEmitted = Len(nodes)

\* ---- C7
\* C7: a failure while a node is processed never leaves the loop: no run
\* ends in an exception of a node, the emission is only reached with every
\* node passed, the failed nodes among them, and every run reaches the end of
\* the emission.
C7_NodesAfterFailureProcessed ==
    /\ opc # "raised"
    /\ failed \subseteq 1..(node_idx - 1)
    /\ opc \in {"emit", "done"} => node_idx = Len(nodes) + 1
    /\ opc = "done" => "flow" \in KindsOf(emitted)

C7_FailureCaughtAtNode ==
    /\ [] C7_NodesAfterFailureProcessed
    /\ <> (opc = "done")

\* a run in which a node failed and a later node got its job emitted
C7_Witness ==
    /\ opc = "done"
    /\ \E n \in failed :
          \E i \in 1..Len(emitted) :
             /\ emitted[i].kind = "job"
             /\ emitted[i].node # << "start" >>
             /\ SequenceOf(emitted[i].node) > nodes[n].sequence_order

====
